---------------------------- MODULE Spec2Model ----------------------------
(***************************************************************************)
(* Model of the waved update pipeline (lib/display.cpp): producers calling *)
(* push_update, the generator thread, the vsync thread, and stop().        *)
(* Completion tracking (the in-flight id set, the finalize flag, wait_for  *)
(* and wait_for_all) is declared in the Generator header but its           *)
(* implementation is not part of the sources; it is modelled from the      *)
(* specification text and marked as such.                                  *)
(***************************************************************************)
EXTENDS Integers, Sequences, FiniteSets, TLC

(***************************************************************************)
(* Bounds of the model.                                                    *)
(***************************************************************************)
\* Width in bits of a coordinate (std::uint32_t in the source, scaled down).
CoordBits == 3
\* Number of pixels in a row of the frame buffer, and number of rows (260 and
\* 1408 in the source, scaled down).
buf_width == 3
buf_height == 4
\* Number of matrices of a waveform.
step_count == 2
\* Number of push_update calls made over a run.
MaxPush == 2
\* Number of client threads calling wait_for and wait_for_all.
NumWaiters == 1
\* Number of start() calls made over a run.
MaxStart == 1
\* Number of frames held by the scanout framebuffer (17 in the source).
frame_count == 3
\* Number of calls made to the Controller over a run.
MaxCalls == 6
\* Number of pending updates in the queue when merge_updates is called.
MaxQueue == 3
\* Width in bits of a temperature threshold (std::int8_t in the source,
\* scaled down), number of thresholds and number of modes of a table.
TempBits == 2
MaxTemps == 3
MaxModes == 2
\* Number of pixels of the buffers given to the coordinate transform.
MaxArea == 4

\* Number of display pixels held by a pixel of the frame buffer (8 in the
\* source, scaled down with the panel) and number of bytes of such a pixel.
buf_actual_depth == 2
buf_depth == 4
\* Margins of unused pixels in each frame (3, 1, 26 and 0 in the source).
margin_top == 1
margin_bottom == 1
margin_left == 1
margin_right == 0

\* Number of bytes per row, and total size of a frame in bytes.
buf_stride == buf_width * buf_depth
buf_frame == buf_stride * buf_height

\* Visible screen size, in the coordinate system of the panel (1872 x 1404 in
\* the source).
epd_width == (buf_width - margin_left - margin_right) * buf_actual_depth
epd_height == buf_height - margin_top - margin_bottom

Word == 2 ^ CoordBits

\* Unsigned wrap-around of std::uint32_t arithmetic.
U(x) == x % Word

Min(a, b) == IF a <= b THEN a ELSE b
Max(a, b) == IF a >= b THEN a ELSE b

(***************************************************************************)
(* Regions (Region<std::uint32_t>).                                        *)
(***************************************************************************)
Rect(t, l, w, h) == [top |-> t, left |-> l, width |-> w, height |-> h]

EmptyRegion == Rect(0, 0, 0, 0)

\* Region::extend(region)
ExtendNoAbsorb(a, b) ==
    IF a.width = 0 /\ a.height = 0 THEN b
    ELSE Rect(Min(a.top, b.top), Min(a.left, b.left),
              U(Max(U(a.left + a.width), U(b.left + b.width))
                - Min(a.left, b.left)),
              U(Max(U(a.top + a.height), U(b.top + b.height))
                - Min(a.top, b.top)))
Extend(a, b) ==
    IF b.width = 0 /\ b.height = 0 THEN a
    ELSE IF a.width = 0 /\ a.height = 0 THEN b
    ELSE LET top == Min(a.top, b.top)
             left == Min(a.left, b.left)
             width == U(Max(U(a.left + a.width), U(b.left + b.width)) - left)
             height == U(Max(U(a.top + a.height), U(b.top + b.height)) - top)
         IN Rect(top, left, width, height)

\* Region::contains(region)
ContainsRegion(a, b) ==
    /\ a.left <= b.left
    /\ a.top <= b.top
    /\ U(a.left + a.width) >= U(b.left + b.width)
    /\ U(a.top + a.height) >= U(b.top + b.height)

\* Region::contains(x, y)
Contains(a, x, y) == ContainsRegion(a, Rect(y, x, 1, 1))

\* Pixels of the panel, as <<x, y>>.
Panel == (0 .. epd_width - 1) \X (0 .. epd_height - 1)

(***************************************************************************)
(* push_update: validation and coordinate transform.                       *)
(***************************************************************************)
\* buffer.size() != region.width * region.height
SizeMismatch(region, buflen) == buflen # U(region.width * region.height)

\* Transform from client coordinates to panel coordinates.
TransformRegion(region) ==
    Rect(U(epd_height - region.left - region.width),
         U(epd_width - region.top - region.height),
         region.height,
         region.width)

\* Number of intensity values (1 << 5 in the source, scaled down): buffers
\* are masked to intensity_values - 1.
intensity_values == 4

\* The buffer transposed and flipped along both axes, and masked:
\* trans_buffer[k] = buffer[i * region.width + j] & (intensity_values - 1).
TransformBufferRotate(region, buffer) ==
    [k \in 1 .. Len(buffer) |->
        LET i == region.height - ((k - 1) % region.height) - 1
            j == (k - 1) \div region.height
        IN buffer[i * region.width + j + 1] % intensity_values]
TransformBuffer(region, buffer) ==
    [k \in 1 .. Len(buffer) |->
        LET i == region.height - ((k - 1) % region.height) - 1
            j == region.width - ((k - 1) \div region.height) - 1
        IN buffer[i * region.width + j + 1] % intensity_values]

\* The bounds check made on the transformed region.
OutOfBounds(region) ==
    \/ region.left >= epd_width
    \/ region.top >= epd_height
    \/ U(region.left + region.width) > epd_width
    \/ U(region.top + region.height) > epd_height

\* True iff push_update(ModeID, ...) accepts the update.
Accepts(region, buflen) ==
    /\ ~SizeMismatch(region, buflen)
    /\ ~OutOfBounds(TransformRegion(region))


(***************************************************************************)
(* Waveform table: mode kinds known to the table (mode_id_by_kind).        *)
(***************************************************************************)
ModeKinds == {"INIT", "DU", "A2"}

mode_id_by_kind == [k \in {"INIT", "DU"} |-> IF k = "INIT" THEN 0 ELSE 1]

(***************************************************************************)
(* Updates and frames.                                                     *)
(***************************************************************************)
\* struct Update: the list of ids, the mode, the immediate flag, the region
\* and the buffer. The clients give every pixel of a buffer the same
\* intensity, a different one for each call: the id plus one.
MkUpdate(id, mode, immediate, region) ==
    [id |-> <<id>>, mode |-> mode, immediate |-> immediate, region |-> region,
     buffer |-> id + 1]

\* A default-constructed Update.
NoUpdate ==
    [id |-> <<>>, mode |-> 0, immediate |-> FALSE, region |-> EmptyRegion,
     buffer |-> 0]

\* Update::apply: the buffer is copied to the region of an intensity array.
ApplyNothing(update, target) == target
ApplyAtOrigin(update, target) ==
    [p \in Panel |-> IF p[1] < update.region.width /\ p[2] < update.region.height
                     THEN update.buffer ELSE target[p]]
Apply(update, target) ==
    [p \in Panel |-> IF Contains(update.region, p[1], p[2])
                     THEN update.buffer ELSE target[p]]

Range(s) == {s[i] : i \in 1 .. Len(s)}

\* A generated frame: the first id of its update, its rank among the frames of
\* the update, whether it is the last frame of the update, and the ids the
\* update carries when the frame is generated.
MkFrame(update, n, last) ==
    [u |-> update.id[1], n |-> n, last |-> last, ids |-> Range(update.id)]

Waiters == 1 .. NumWaiters

VARIABLES
    \* Display / Generator members
    started, stopping_generator, stopping_vsync, power_state,
    next_update_id, pending_updates, processing_updates,
    generate_buffer, vsync_buffer, vsync_update, vsync_finalize,
    vsync_can_read, vsync_can_write,
    \* locals of the generator thread
    gen_pc, cur_update, steps, frames_made, finished, send_finalize,
    \* locals of the vsync thread
    vs_pc, scan_k, next_frame, first_frame,
    \* the thread calling start() and stop(), and the producers
    stop_pc, prod_pc, wait_id,
    \* history
    pushes, starts, last_push, returned, completed, handed, flipped,
    \* history: the calls of send_frames that handed frames over, as the first
    \* id of the update, the finalize flag and the number of frames
    handoffs,
    \* the intensity arrays of the generator thread
    current_intensity, next_intensity,
    \* history: the ids that were in the queue when stop() was called, and
    \* whether a page flip succeeded since the controller was powered on
    pending_at_stop, flipped_since_on,
    \* history: the pairs of identical batch updates pushed back-to-back, as
    \* <<first id, second id, region>>
    pushed_twice,
    \* history: for each pixel, the value of the last accepted update that
    \* covers it
    written,
    \* Controller members, the contents of the scanout framebuffer, and the
    \* history of the calls made to the Controller
    scanout_fb, fb_mem, front_buffer_index, back_buffer_index,
    ctl_power_state, ctl_op, ctl_calls, munmap_calls, last_request,
    \* the last call made to Region::extend, to WaveformTable::lookup and to
    \* the coordinate transform of push_update, with its arguments and result
    extend_call, lookup_call, transform_call,
    \* the frames of the last call of send_frames, byte by byte, and the call
    \* of the generator that made them: its update, the intensities it
    \* started from and the region of its last frames
    sent_frames, frame_call,
    \* the last call made to the parser of the waveform file, with its
    \* arguments and result
    wbf_call

vars == <<started, stopping_generator, stopping_vsync, power_state,
          next_update_id, pending_updates, processing_updates,
          generate_buffer, vsync_buffer, vsync_update, vsync_finalize,
          vsync_can_read, vsync_can_write,
          gen_pc, cur_update, steps, frames_made, finished, send_finalize,
          vs_pc, scan_k, next_frame, first_frame,
          stop_pc, prod_pc, wait_id,
          pushes, starts, last_push, returned, completed, handed, flipped,
          handoffs, current_intensity, next_intensity, pending_at_stop,
          flipped_since_on, pushed_twice, written,
          scanout_fb, fb_mem, front_buffer_index, back_buffer_index,
          ctl_power_state, ctl_op, ctl_calls, munmap_calls, last_request,
          extend_call, lookup_call, transform_call, sent_frames, frame_call,
          wbf_call>>

genLocals == <<cur_update, steps, frames_made, finished, send_finalize>>
vsLocals == <<scan_k, next_frame, first_frame>>
flags == <<vsync_can_read, vsync_can_write>>
stopFlags == <<stopping_generator, stopping_vsync>>
slot == <<generate_buffer, vsync_buffer, vsync_update, vsync_finalize>>
queue == <<next_update_id, pending_updates>>
waiters == <<prod_pc, wait_id>>
pushHist == <<pushes, last_push, returned, written>>
frameHist == <<handed, flipped, handoffs>>
intensity == <<current_intensity, next_intensity>>
ctl == <<scanout_fb, fb_mem, front_buffer_index, back_buffer_index,
         ctl_power_state, ctl_op, ctl_calls, munmap_calls, last_request>>
calc == <<extend_call, lookup_call, transform_call, sent_frames, frame_call,
          wbf_call>>
pipeline == <<started, stopFlags, power_state, queue, processing_updates,
              slot, flags, gen_pc, genLocals, vs_pc, vsLocals, stop_pc,
              waiters, pushHist, starts, completed, frameHist, intensity,
              pending_at_stop, flipped_since_on, pushed_twice>>

\* Slots of the scanout framebuffer.
Slots == 0 .. frame_count - 1

\* The value of front_buffer_index when no frame was flipped since power-on
\* (std::size_t(-1) in the source).
NoFront == -1

\* The last call of push_update: its arguments, whether it named a mode kind
\* the waveform table does not know, and how it ended.
NoPush ==
    [region |-> EmptyRegion, buflen |-> 0, unknown_kind |-> FALSE,
     result |-> "init", id |-> 0]

\* No call was made yet.
NoCall == [op |-> "none"]

Init ==
    /\ started = FALSE
    /\ stopping_generator = FALSE
    /\ stopping_vsync = FALSE
    /\ power_state = FALSE
    /\ next_update_id = 0
    /\ pending_updates = <<>>
    /\ processing_updates = {}
    /\ generate_buffer = <<>>
    /\ vsync_buffer = <<>>
    /\ vsync_update = NoUpdate
    /\ vsync_finalize = FALSE
    /\ vsync_can_read = FALSE
    /\ vsync_can_write = TRUE
    /\ gen_pc = "off"
    /\ cur_update = NoUpdate
    /\ steps = [p \in Panel |-> 0]
    /\ frames_made = 0
    /\ finished = FALSE
    /\ send_finalize = FALSE
    /\ vs_pc = "off"
    /\ scan_k = 0
    /\ next_frame = 0
    /\ first_frame = TRUE
    /\ stop_pc = "idle"
    /\ prod_pc = [p \in Waiters |-> "idle"]
    /\ wait_id = [p \in Waiters |-> 0]
    /\ pushes = 0
    /\ starts = 0
    /\ last_push = NoPush
    /\ returned = <<>>
    /\ completed = <<>>
    /\ handed = <<>>
    /\ flipped = <<>>
    /\ handoffs = <<>>
    /\ current_intensity = [p \in Panel |-> 0]
    /\ next_intensity = [p \in Panel |-> 0]
    /\ pending_at_stop = {}
    /\ flipped_since_on = FALSE
    /\ pushed_twice = {}
    /\ written = [p \in Panel |-> 0]
    /\ scanout_fb = "nullptr"
    /\ fb_mem = [s \in Slots |-> "unmapped"]
    /\ front_buffer_index = NoFront
    /\ back_buffer_index = 0
    /\ ctl_power_state = FALSE
    /\ ctl_op = "none"
    /\ ctl_calls = 0
    /\ munmap_calls = 0
    /\ last_request = "none"
    /\ extend_call = NoCall
    /\ lookup_call = NoCall
    /\ transform_call = NoCall
    /\ sent_frames = <<>>
    /\ frame_call = NoCall
    /\ wbf_call = NoCall

(***************************************************************************)
(* Display::set_power, Display::start                                      *)
(***************************************************************************)
\* set_power(power_state): the value of this->power_state after the call.
\* The FBIOBLANK ioctl is taken to succeed.
SetPowerStaysOn(current, wanted) == TRUE
SetPowerStaysOff(current, wanted) == FALSE
SetPower(current, wanted) == IF wanted # current THEN wanted ELSE current

Start ==
    /\ ~started
    /\ stop_pc = "idle"
    /\ starts < MaxStart
    /\ starts' = starts + 1
    /\ power_state' = SetPower(power_state, TRUE)
    /\ flipped_since_on' = FALSE
    /\ stopping_generator' = FALSE
    /\ stopping_vsync' = FALSE
    /\ gen_pc' = "pop"
    /\ vs_pc' = "wait1"
    /\ scan_k' = 0
    /\ next_frame' = 0
    /\ first_frame' = TRUE
    /\ started' = TRUE
    /\ UNCHANGED <<queue, processing_updates, slot, flags, genLocals,
                   stop_pc, waiters, pushHist, completed, frameHist,
                   intensity, pending_at_stop, pushed_twice, ctl, calc>>

(***************************************************************************)
(* Display::push_update                                                    *)
(***************************************************************************)
\* this->next_update_id++
NextIdStuck(id) == id
NextId(id) == U(id + 1)

\* processing_updates.insert(id): the id is recorded as in flight.
InsertInFlight(set, id) == set \cup {id}

\* updates_cv.notify_one() wakes the generator if it is blocked in pop_update.
NotifyUpdates(pc) == IF pc = "pop_blocked" THEN "pop" ELSE pc

\* The pairs of identical batch updates pushed back-to-back: the update that
\* is pushed equals the last update of the queue, which is still pending.
PushedTwice(q, update) ==
    IF /\ q # <<>>
       /\ ~update.immediate
       /\ ~q[Len(q)].immediate
       /\ q[Len(q)].mode = update.mode
       /\ q[Len(q)].region = update.region
    THEN {<<q[Len(q)].id[1], update.id[1], update.region>>}
    ELSE {}

\* The values last given by the clients for each pixel, once an update of a
\* region of the panel with a buffer of one value is accepted.
LastWrite(region, value, previous) ==
    [p \in Panel |->
        IF /\ region.left <= p[1] /\ p[1] < region.left + region.width
           /\ region.top <= p[2] /\ p[2] < region.top + region.height
        THEN value ELSE previous[p]]

\* push_update(ModeID mode, bool immediate, UpdateRegion region, buffer)
PushUpdate(mode, immediate, region, buflen) ==
    /\ pushes < MaxPush
    /\ pushes' = pushes + 1
    /\ IF Accepts(region, buflen)
       THEN \* the critical section guarded by updates_lock
            /\ gen_pc # "pop_enter"
            /\ pending_updates' = Append(pending_updates,
                   MkUpdate(next_update_id, mode, immediate,
                            TransformRegion(region)))
            /\ next_update_id' = NextId(next_update_id)
            /\ processing_updates' =
                   InsertInFlight(processing_updates, next_update_id)
            /\ gen_pc' = NotifyUpdates(gen_pc)
            /\ returned' = Append(returned, next_update_id)
            /\ pushed_twice' = pushed_twice \cup
                   PushedTwice(pending_updates,
                               MkUpdate(next_update_id, mode, immediate,
                                        TransformRegion(region)))
            /\ written' = LastWrite(TransformRegion(region),
                                    next_update_id + 1, written)
            /\ last_push' = [region |-> region, buflen |-> buflen,
                             unknown_kind |-> FALSE,
                             result |-> "ok", id |-> next_update_id]
       ELSE /\ last_push' = [region |-> region, buflen |-> buflen,
                             unknown_kind |-> FALSE,
                             result |-> "none", id |-> 0]
            /\ UNCHANGED <<queue, processing_updates, gen_pc, returned,
                           pushed_twice, written>>
    /\ UNCHANGED <<started, stopFlags, power_state, slot, flags, genLocals,
                   vs_pc, vsLocals, stop_pc, waiters, starts, completed,
                   frameHist, intensity, pending_at_stop, flipped_since_on,
                   ctl, calc>>

\* push_update(ModeKind mode, ...): get_mode_id throws std::out_of_range for a
\* mode kind the table does not know, otherwise the call is forwarded.
PushUpdateKind(kind, immediate, region, buflen) ==
    IF kind \in DOMAIN mode_id_by_kind
    THEN PushUpdate(mode_id_by_kind[kind], immediate, region, buflen)
    ELSE /\ pushes < MaxPush
         /\ pushes' = pushes + 1
         /\ last_push' = [region |-> region, buflen |-> buflen,
                          unknown_kind |-> TRUE,
                          result |-> "throw", id |-> 0]
         /\ UNCHANGED <<started, stopFlags, power_state, queue,
                        processing_updates, slot, flags, gen_pc, genLocals,
                        vs_pc, vsLocals, stop_pc, waiters, starts, returned,
                        written, completed, frameHist, intensity,
                        pending_at_stop, flipped_since_on, pushed_twice, ctl,
                        calc>>

(***************************************************************************)
(* Generator thread                                                        *)
(***************************************************************************)
\* Update::merge: compatible updates are merged into the current one.
CanMergeAnyMode(cur, next) == cur.immediate = next.immediate
CanMerge(cur, next) ==
    /\ cur.immediate = next.immediate
    /\ cur.mode = next.mode

MergeInto(cur, next) ==
    [cur EXCEPT !.id = cur.id \o next.id,
                !.region = Extend(cur.region, next.region)]

\* Display::merge_updates: <<merged update, remaining queue>>.
RECURSIVE MergeUpdates(_, _)
MergeUpdates(cur, q) ==
    IF q = <<>> \/ ~CanMerge(cur, Head(q))
    THEN <<cur, q>>
    ELSE MergeUpdates(MergeInto(cur, Head(q)), Tail(q))

\* Display::merge_updates: the intensity array once the buffer of every
\* merged update is applied to it.
RECURSIVE MergeIntensity(_, _, _)
MergeIntensity(cur, q, target) ==
    IF q = <<>> \/ ~CanMerge(cur, Head(q))
    THEN target
    ELSE MergeIntensity(MergeInto(cur, Head(q)), Tail(q),
                        Apply(Head(q), target))

\* The ids of the updates of a queue.
QueuedIds(q) == UNION {Range(q[i].id) : i \in 1 .. Len(q)}

\* pending_updates.front() / pop()
PopBack(q) == <<q[Len(q)], SubSeq(q, 1, Len(q) - 1)>>
PopFront(q) == <<Head(q), Tail(q)>>

\* Pixels of the panel visited by generate_immediate for a region.
StepPixels(region) == {p \in Panel : Contains(region, p[1], p[2])}

\* Pixels whose waveform is not finished: steps[y][x] < step_count.
Advancing(region, st) == {p \in StepPixels(region) : st[p] < step_count}

\* active_region: extended by each advancing pixel.
RECURSIVE ExtendAll(_, _)
ExtendAll(region, pixels) ==
    IF pixels = {} THEN region
    ELSE LET p == CHOOSE q \in pixels : TRUE
         IN ExtendAll(Extend(region, Rect(p[2], p[1], 1, 1)), pixels \ {p})

\* while (!this->stopping_generator) process_update(); with updates_lock
\* held in Display::pop_update, the predicate of the wait is evaluated: the
\* thread leaves when stopping_generator is set, pops the front update when
\* there is one, and waits otherwise.
GenPop ==
    /\ gen_pc = "pop"
    /\ IF stopping_generator
       THEN /\ gen_pc' = "exited"
            /\ UNCHANGED <<pending_updates, genLocals>>
       ELSE IF pending_updates # <<>>
            THEN LET popped == PopFront(pending_updates)
                 IN /\ cur_update' = popped[1]
                    /\ pending_updates' = popped[2]
                    /\ steps' = [p \in Panel |-> 0]
                    /\ frames_made' = 0
                    /\ finished' = FALSE
                    /\ send_finalize' = FALSE
                    /\ gen_pc' = IF popped[1].immediate THEN "imm" ELSE "batch"
            ELSE /\ gen_pc' = "pop_enter"
                 /\ UNCHANGED <<pending_updates, genLocals>>
    /\ UNCHANGED <<started, stopFlags, power_state, next_update_id,
                   processing_updates, slot, flags, vs_pc, vsLocals, stop_pc,
                   waiters, pushHist, starts, completed, frameHist,
                   intensity, pending_at_stop, flipped_since_on,
                   pushed_twice, ctl, calc>>

\* The generator releases updates_lock and blocks on updates_cv.
GenPopBlock ==
    /\ gen_pc = "pop_enter"
    /\ gen_pc' = "pop_blocked"
    /\ UNCHANGED <<started, stopFlags, power_state, queue, processing_updates,
                   slot, flags, genLocals, vs_pc, vsLocals, stop_pc, waiters,
                   pushHist, starts, completed, frameHist,
                   intensity, pending_at_stop, flipped_since_on,
                   pushed_twice, ctl, calc>>

\* Display::generate_batch: one frame per matrix of the waveform, then
\* send_frames.
GenBatch ==
    /\ gen_pc = "batch"
    /\ generate_buffer' =
           [n \in 1 .. step_count |->
               MkFrame(cur_update, n - 1, n = step_count)]
    /\ frames_made' = step_count
    /\ send_finalize' = TRUE
    /\ next_intensity' = Apply(cur_update, current_intensity)
    /\ gen_pc' = "send"
    /\ UNCHANGED <<started, stopFlags, power_state, queue, processing_updates,
                   vsync_buffer, vsync_update, vsync_finalize, flags,
                   cur_update, steps, finished, vs_pc, vsLocals, stop_pc,
                   waiters, pushHist, starts, completed, frameHist,
                   current_intensity, pending_at_stop, flipped_since_on,
                   pushed_twice, ctl, calc>>

\* finalize = (no pixels were advanced this frame)
FinalizeOf(done) == done

\* One iteration of the loop of Display::generate_immediate: merge_updates,
\* then one frame in which every unfinished pixel of the region advances.
GenImmediate ==
    /\ gen_pc = "imm"
    /\ LET merged == MergeUpdates(cur_update, pending_updates)
           update == merged[1]
           advancing == Advancing(update.region, steps)
           active_region == ExtendAll(EmptyRegion, advancing)
           applied == IF frames_made = 0
                      THEN Apply(cur_update, current_intensity)
                      ELSE next_intensity
       IN /\ pending_updates' = merged[2]
          /\ next_intensity' =
                 MergeIntensity(cur_update, pending_updates, applied)
          /\ finished' = (advancing = {})
          /\ steps' = [p \in Panel |->
                          IF p \in advancing THEN steps[p] + 1 ELSE steps[p]]
          /\ generate_buffer' =
                 <<MkFrame(update, frames_made, advancing = {})>>
          /\ frames_made' = frames_made + 1
          /\ send_finalize' = FinalizeOf(advancing = {})
          /\ cur_update' = IF advancing = {} THEN update
                           ELSE [update EXCEPT !.region = active_region]
    /\ gen_pc' = "send"
    /\ UNCHANGED <<started, stopFlags, power_state, next_update_id,
                   processing_updates, vsync_buffer, vsync_update,
                   vsync_finalize, flags, vs_pc, vsLocals, stop_pc, waiters,
                   pushHist, starts, completed, frameHist,
                   current_intensity, pending_at_stop, flipped_since_on,
                   pushed_twice, ctl, calc>>

\* notify_one() on vsync_can_read_cv / vsync_can_write_cv: a thread blocked
\* on the condition is woken and evaluates its predicate again.
NotifyCanRead(pc) ==
    CASE pc = "wait1_blocked" -> "wait1"
      [] pc = "wait2_blocked" -> "wait2"
      [] OTHER -> pc

NotifyCanWrite(pc) == IF pc = "send_blocked" THEN "send" ELSE pc

\* The predicate of the wait in send_frames.
CanSend(can_write, stopping) == can_write \/ stopping

\* Display::send_frames, with vsync_write_lock held: once the predicate holds,
\* the update and the frame buffers are handed over.
GenSend ==
    /\ gen_pc = "send"
    /\ IF CanSend(vsync_can_write, stopping_generator)
       THEN /\ vsync_update' = cur_update
            /\ vsync_buffer' = generate_buffer
            /\ generate_buffer' = vsync_buffer
            /\ vsync_finalize' = send_finalize
            /\ handed' = handed \o generate_buffer
            /\ handoffs' = Append(handoffs,
                   [u |-> cur_update.id[1], finalize |-> send_finalize,
                    frames |-> Len(generate_buffer)])
            /\ gen_pc' = "send_w"
       ELSE /\ gen_pc' = "send_enter"
            /\ UNCHANGED <<slot, handed, handoffs>>
    /\ UNCHANGED <<started, stopFlags, power_state, queue, processing_updates,
                   flags, genLocals, vs_pc, vsLocals, stop_pc, waiters,
                   pushHist, starts, completed, flipped,
                   intensity, pending_at_stop, flipped_since_on,
                   pushed_twice, ctl, calc>>

\* The generator releases vsync_write_lock and blocks on vsync_can_write_cv.
GenSendBlock ==
    /\ gen_pc = "send_enter"
    /\ gen_pc' = "send_blocked"
    /\ UNCHANGED <<started, stopFlags, power_state, queue, processing_updates,
                   slot, flags, genLocals, vs_pc, vsLocals, stop_pc, waiters,
                   pushHist, starts, completed, frameHist,
                   intensity, pending_at_stop, flipped_since_on,
                   pushed_twice, ctl, calc>>

\* this->vsync_can_write = false;
GenSendW ==
    /\ gen_pc = "send_w"
    /\ vsync_can_write' = FALSE
    /\ gen_pc' = "send_r"
    /\ UNCHANGED <<started, stopFlags, power_state, queue, processing_updates,
                   slot, vsync_can_read, genLocals, vs_pc, vsLocals, stop_pc,
                   waiters, pushHist, starts, completed, frameHist,
                   intensity, pending_at_stop, flipped_since_on,
                   pushed_twice, ctl, calc>>

\* this->vsync_can_read = true;
GenSendR ==
    /\ gen_pc = "send_r"
    /\ vsync_can_read' = TRUE
    /\ gen_pc' = "send_n"
    /\ UNCHANGED <<started, stopFlags, power_state, queue, processing_updates,
                   slot, vsync_can_write, genLocals, vs_pc, vsLocals, stop_pc,
                   waiters, pushHist, starts, completed, frameHist,
                   intensity, pending_at_stop, flipped_since_on,
                   pushed_twice, ctl, calc>>

\* while (!finished): generate_immediate makes another frame unless no pixel
\* advanced in the last one; generate_batch returns after its only hand-off.
LoopAlways(update, done) == update.immediate
LoopAgain(update, done) == update.immediate /\ ~done

\* this->vsync_can_read_cv.notify_one(); then send_frames returns: a batch
\* update is done, an immediate update is done once no pixel advanced. When
\* the update is done: this->current_intensity = next_intensity.
GenSendNotify ==
    /\ gen_pc = "send_n"
    /\ vs_pc' = NotifyCanRead(vs_pc)
    /\ IF LoopAgain(cur_update, finished)
       THEN /\ gen_pc' = "imm"
            /\ UNCHANGED current_intensity
       ELSE /\ gen_pc' = "pop"
            /\ current_intensity' = next_intensity
    /\ UNCHANGED <<started, stopFlags, power_state, queue, processing_updates,
                   slot, flags, genLocals, vsLocals, stop_pc, waiters,
                   pushHist, starts, completed, frameHist,
                   next_intensity, pending_at_stop, flipped_since_on,
                   pushed_twice, ctl, calc>>

(***************************************************************************)
(* Vsync thread                                                            *)
(***************************************************************************)
\* The predicate of both waits of the vsync thread.
CanRead(can_read, stopping) == can_read \/ stopping

\* What the vsync thread does with vsync_read_lock held once it evaluates the
\* predicate of a wait: it returns when stopping_vsync is set, starts the
\* scan-out loop after set_power(true) when frames are ready, and waits
\* otherwise.
AfterWait(waiting) ==
    IF stopping_vsync
    THEN /\ vs_pc' = "exited"
         /\ UNCHANGED <<power_state, scan_k>>
    ELSE IF vsync_can_read
         THEN /\ power_state' = SetPower(power_state, TRUE)
              /\ scan_k' = 0
              /\ vs_pc' = "scan"
         ELSE /\ vs_pc' = waiting
              /\ UNCHANGED <<power_state, scan_k>>

\* while (!this->stopping_vsync):
\* vsync_can_read_cv.wait_for(lock, power_off_timeout, pred)
VsyncWait ==
    /\ vs_pc = "wait1"
    /\ AfterWait("wait1_enter")
    /\ UNCHANGED <<started, stopFlags, queue, processing_updates, slot, flags,
                   gen_pc, genLocals, next_frame, first_frame, stop_pc,
                   waiters, pushHist, starts, completed, frameHist,
                   intensity, pending_at_stop, flipped_since_on,
                   pushed_twice, ctl, calc>>

\* The vsync thread releases vsync_read_lock and blocks on the condition.
VsyncWaitBlock ==
    /\ vs_pc = "wait1_enter"
    /\ vs_pc' = "wait1_blocked"
    /\ UNCHANGED <<started, stopFlags, power_state, queue, processing_updates,
                   slot, flags, gen_pc, genLocals, vsLocals, stop_pc, waiters,
                   pushHist, starts, completed, frameHist,
                   intensity, pending_at_stop, flipped_since_on,
                   pushed_twice, ctl, calc>>

\* power_off_timeout elapses: wait_for returns the value of the predicate;
\* when it is false the controller is powered off and the thread waits again,
\* this time without a timeout.
VsyncTimeout ==
    /\ vs_pc = "wait1_blocked"
    /\ IF CanRead(vsync_can_read, stopping_vsync)
       THEN /\ vs_pc' = "wait1"
            /\ UNCHANGED power_state
            /\ UNCHANGED flipped_since_on
       ELSE /\ power_state' = SetPower(power_state, FALSE)
            /\ flipped_since_on' = FALSE
            /\ vs_pc' = "wait2"
    /\ UNCHANGED <<started, stopFlags, queue, processing_updates, slot, flags,
                   gen_pc, genLocals, vsLocals, stop_pc, waiters, pushHist,
                   starts, completed, frameHist,
                   intensity, pending_at_stop, pushed_twice, ctl, calc>>

\* vsync_can_read_cv.wait(lock, pred) after the power-off.
VsyncWaitOff ==
    /\ vs_pc = "wait2"
    /\ AfterWait("wait2_enter")
    /\ UNCHANGED <<started, stopFlags, queue, processing_updates, slot, flags,
                   gen_pc, genLocals, next_frame, first_frame, stop_pc,
                   waiters, pushHist, starts, completed, frameHist,
                   intensity, pending_at_stop, flipped_since_on,
                   pushed_twice, ctl, calc>>

VsyncWaitOffBlock ==
    /\ vs_pc = "wait2_enter"
    /\ vs_pc' = "wait2_blocked"
    /\ UNCHANGED <<started, stopFlags, power_state, queue, processing_updates,
                   slot, flags, gen_pc, genLocals, vsLocals, stop_pc, waiters,
                   pushHist, starts, completed, frameHist,
                   intensity, pending_at_stop, flipped_since_on,
                   pushed_twice, ctl, calc>>

\* for (k = 0; k < vsync_buffer.size(); ++k): the loop condition.
ScanDone(kk, size) == kk >= size

\* One iteration of the scan-out loop: the frame is copied to the alternate
\* framebuffer slot and the page-flip ioctl succeeds.
VsyncFlip ==
    /\ vs_pc = "scan"
    /\ ~ScanDone(scan_k, Len(vsync_buffer))
    /\ next_frame' = (next_frame + 1) % 2
    /\ first_frame' = FALSE
    /\ flipped' = Append(flipped, vsync_buffer[scan_k + 1])
    /\ flipped_since_on' = TRUE
    /\ scan_k' = scan_k + 1
    /\ UNCHANGED <<started, stopFlags, power_state, queue, processing_updates,
                   slot, flags, gen_pc, genLocals, vs_pc, stop_pc, waiters,
                   pushHist, starts, completed, handed, handoffs,
                   intensity, pending_at_stop, pushed_twice, ctl, calc>>

\* The page-flip ioctl fails: the error is logged and the thread returns.
VsyncFlipFail ==
    /\ vs_pc = "scan"
    /\ ~ScanDone(scan_k, Len(vsync_buffer))
    /\ next_frame' = (next_frame + 1) % 2
    /\ vs_pc' = "exited"
    /\ UNCHANGED <<started, stopFlags, power_state, queue, processing_updates,
                   slot, flags, gen_pc, genLocals, scan_k, first_frame,
                   stop_pc, waiters, pushHist, starts, completed, frameHist,
                   intensity, pending_at_stop, flipped_since_on,
                   pushed_twice, ctl, calc>>

\* The ids marked complete by the vsync thread.
EraseEverything(set, ids) == {}
EraseInFlight(set, ids) == set \ Range(ids)

\* End of the scan-out loop: if (vsync_finalize) every id of vsync_update is
\* erased from processing_updates and the waiters are notified.
VsyncComplete ==
    /\ vs_pc = "scan"
    /\ ScanDone(scan_k, Len(vsync_buffer))
    /\ IF vsync_finalize
       THEN /\ processing_updates' =
                   EraseInFlight(processing_updates, vsync_update.id)
            /\ completed' = completed \o vsync_update.id
       ELSE UNCHANGED <<processing_updates, completed>>
    /\ vs_pc' = "rel_w"
    /\ UNCHANGED <<started, stopFlags, power_state, queue, slot, flags,
                   gen_pc, genLocals, vsLocals, stop_pc, waiters, pushHist,
                   starts, frameHist,
                   intensity, pending_at_stop, flipped_since_on,
                   pushed_twice, ctl, calc>>

\* this->vsync_can_write = true;
VsyncRelW ==
    /\ vs_pc = "rel_w"
    /\ vsync_can_write' = TRUE
    /\ vs_pc' = "rel_r"
    /\ UNCHANGED <<started, stopFlags, power_state, queue, processing_updates,
                   slot, vsync_can_read, gen_pc, genLocals, vsLocals, stop_pc,
                   waiters, pushHist, starts, completed, frameHist,
                   intensity, pending_at_stop, flipped_since_on,
                   pushed_twice, ctl, calc>>

\* this->vsync_can_read = false;
VsyncRelR ==
    /\ vs_pc = "rel_r"
    /\ vsync_can_read' = FALSE
    /\ vs_pc' = "rel_n"
    /\ UNCHANGED <<started, stopFlags, power_state, queue, processing_updates,
                   slot, vsync_can_write, gen_pc, genLocals, vsLocals, stop_pc,
                   waiters, pushHist, starts, completed, frameHist,
                   intensity, pending_at_stop, flipped_since_on,
                   pushed_twice, ctl, calc>>

\* this->vsync_can_write_cv.notify_one();
VsyncRelNotify ==
    /\ vs_pc = "rel_n"
    /\ gen_pc' = NotifyCanWrite(gen_pc)
    /\ vs_pc' = "wait1"
    /\ UNCHANGED <<started, stopFlags, power_state, queue, processing_updates,
                   slot, flags, genLocals, vsLocals, stop_pc, waiters,
                   pushHist, starts, completed, frameHist,
                   intensity, pending_at_stop, flipped_since_on,
                   pushed_twice, ctl, calc>>

(***************************************************************************)
(* Display::stop                                                           *)
(***************************************************************************)
\* stop() on a display that is not started only calls set_power(false).
StopNotStarted ==
    /\ stop_pc = "idle"
    /\ ~started
    /\ power_state' = SetPower(power_state, FALSE)
    /\ UNCHANGED <<started, stopFlags, queue, processing_updates, slot, flags,
                   gen_pc, genLocals, vs_pc, vsLocals, stop_pc, waiters,
                   pushHist, starts, completed, frameHist,
                   intensity, pending_at_stop, flipped_since_on,
                   pushed_twice, ctl, calc>>

\* this->stopping_generator = true; this->updates_cv.notify_one();
StopBegin ==
    /\ stop_pc = "idle"
    /\ started
    /\ stopping_generator' = TRUE
    /\ gen_pc' = NotifyUpdates(gen_pc)
    /\ stop_pc' = "join_g"
    /\ pending_at_stop' = pending_at_stop \cup QueuedIds(pending_updates)
    /\ UNCHANGED <<started, stopping_vsync, power_state, queue,
                   processing_updates, slot, flags, genLocals, vs_pc,
                   vsLocals, waiters, pushHist, starts, completed, frameHist,
                   intensity, flipped_since_on, pushed_twice, ctl, calc>>

\* this->generator_thread.join(); this->stopping_vsync = true;
StopJoinGenerator ==
    /\ stop_pc = "join_g"
    /\ gen_pc = "exited"
    /\ gen_pc' = "off"
    /\ stopping_vsync' = TRUE
    /\ stop_pc' = "join_v"
    /\ UNCHANGED <<started, stopping_generator, power_state, queue,
                   processing_updates, slot, flags, genLocals, vs_pc,
                   vsLocals, waiters, pushHist, starts, completed, frameHist,
                   intensity, pending_at_stop, flipped_since_on,
                   pushed_twice, ctl, calc>>

\* this->vsync_thread.join(); started = false; set_power(false);
StopJoinVsync ==
    /\ stop_pc = "join_v"
    /\ vs_pc = "exited"
    /\ vs_pc' = "off"
    /\ started' = FALSE
    /\ power_state' = SetPower(power_state, FALSE)
    /\ flipped_since_on' = FALSE
    /\ stop_pc' = "idle"
    /\ UNCHANGED <<stopFlags, queue, processing_updates, slot, flags, gen_pc,
                   genLocals, vsLocals, waiters, pushHist, starts, completed,
                   frameHist,
                   intensity, pending_at_stop, pushed_twice, ctl, calc>>

(***************************************************************************)
(* Generator::wait_for, Generator::wait_for_all                            *)
(***************************************************************************)
\* A client that is not inside a wait can call wait_for or wait_for_all.
Ready(p) == prod_pc[p] \in {"idle", "wait_for_done", "wait_for_all_done"}

\* wait_for(id) is called with an id that push_update returned.
WaitFor(p, id) ==
    /\ Ready(p)
    /\ id \in Range(returned)
    /\ prod_pc' = [prod_pc EXCEPT ![p] = "wait_for"]
    /\ wait_id' = [wait_id EXCEPT ![p] = id]
    /\ UNCHANGED <<started, stopFlags, power_state, queue, processing_updates,
                   slot, flags, gen_pc, genLocals, vs_pc, vsLocals, stop_pc,
                   pushHist, starts, completed, frameHist,
                   intensity, pending_at_stop, flipped_since_on,
                   pushed_twice, ctl, calc>>

\* wait_for returns once the set does not contain the id.
WaitForReturn(p) ==
    /\ prod_pc[p] = "wait_for"
    /\ wait_id[p] \notin processing_updates
    /\ prod_pc' = [prod_pc EXCEPT ![p] = "wait_for_done"]
    /\ UNCHANGED <<started, stopFlags, power_state, queue, processing_updates,
                   slot, flags, gen_pc, genLocals, vs_pc, vsLocals, stop_pc,
                   wait_id, pushHist, starts, completed, frameHist,
                   intensity, pending_at_stop, flipped_since_on,
                   pushed_twice, ctl, calc>>

WaitForAll(p) ==
    /\ Ready(p)
    /\ returned # <<>>
    /\ prod_pc' = [prod_pc EXCEPT ![p] = "wait_for_all"]
    /\ wait_id' = [wait_id EXCEPT ![p] = 0]
    /\ UNCHANGED <<started, stopFlags, power_state, queue, processing_updates,
                   slot, flags, gen_pc, genLocals, vs_pc, vsLocals, stop_pc,
                   pushHist, starts, completed, frameHist,
                   intensity, pending_at_stop, flipped_since_on,
                   pushed_twice, ctl, calc>>

\* wait_for_all returns once the set is empty.
WaitForAllReturn(p) ==
    /\ prod_pc[p] = "wait_for_all"
    /\ processing_updates = {}
    /\ prod_pc' = [prod_pc EXCEPT ![p] = "wait_for_all_done"]
    /\ UNCHANGED <<started, stopFlags, power_state, queue, processing_updates,
                   slot, flags, gen_pc, genLocals, vs_pc, vsLocals, stop_pc,
                   wait_id, pushHist, starts, completed, frameHist,
                   intensity, pending_at_stop, flipped_since_on,
                   pushed_twice, ctl, calc>>

(***************************************************************************)
(* The pipeline: clients, generator thread, vsync thread.                  *)
(***************************************************************************)
\* Regions given by the clients: two different pixels and a region that
\* leaves the panel.
PixelA == Rect(0, 0, 1, 1)
PixelB == Rect(epd_width - 1, epd_height - 1, 1, 1)
Outside == Rect(0, 1, epd_height, 1)

\* Calls made by the clients with a mode id, as <<mode, immediate, region,
\* buffer length>>: a batch update, two immediate updates of different
\* pixels, and an immediate update outside of the panel.
ClientInputs ==
    { <<0, FALSE, PixelA, 1>>, <<0, TRUE, PixelA, 1>>, <<0, TRUE, PixelB, 1>>,
      <<0, TRUE, Outside, epd_height>> }

\* Calls made by the clients with a mode kind: a known and an unknown kind.
ClientKinds == {"DU", "A2"}

Next ==
    \/ Start
    \/ \E in \in ClientInputs : PushUpdate(in[1], in[2], in[3], in[4])
    \/ \E kind \in ClientKinds : PushUpdateKind(kind, FALSE, PixelA, 1)
    \/ GenPop \/ GenPopBlock \/ GenBatch \/ GenImmediate
    \/ GenSend \/ GenSendBlock \/ GenSendW \/ GenSendR \/ GenSendNotify
    \/ VsyncWait \/ VsyncWaitBlock \/ VsyncTimeout
    \/ VsyncWaitOff \/ VsyncWaitOffBlock
    \/ VsyncFlip \/ VsyncFlipFail \/ VsyncComplete
    \/ VsyncRelW \/ VsyncRelR \/ VsyncRelNotify
    \/ StopNotStarted \/ StopBegin \/ StopJoinGenerator \/ StopJoinVsync
    \/ \E p \in Waiters : \E id \in Range(returned) : WaitFor(p, id)
    \/ \E p \in Waiters : WaitForReturn(p)
    \/ \E p \in Waiters : WaitForAll(p)
    \/ \E p \in Waiters : WaitForAllReturn(p)

Spec == Init /\ [][Next]_vars

(***************************************************************************)
(* The clients alone: push_update called with every kind of region.        *)
(***************************************************************************)
\* Coordinates given by the clients: small values, the panel height, and the
\* largest value of the coordinate type.
PushCoords == {0, 1, epd_height, Word - 1}

PushRegions ==
    {Rect(t, l, w, h) : t \in PushCoords, l \in PushCoords,
                        w \in PushCoords, h \in PushCoords}

\* Buffer lengths given by the clients: the area of the region, or one more.
PushBufLens(region) ==
    { U(region.width * region.height), U(region.width * region.height + 1) }

NextPush ==
    \/ \E region \in PushRegions : \E buflen \in PushBufLens(region) :
          PushUpdate(0, TRUE, region, buflen)
    \/ \E region \in {PixelA, Outside}, kind \in ModeKinds :
          \E buflen \in PushBufLens(region) :
             PushUpdateKind(kind, FALSE, region, buflen)

SpecPush == Init /\ [][NextPush]_vars

(***************************************************************************)
(* The Controller (controller.cpp), driven by the thread that owns it.     *)
(***************************************************************************)
\* Controller::set_power: the value of this->power_state after the call. The
\* FBIOBLANK ioctl is taken to succeed.
CtlPower(current, wanted) == IF wanted # current THEN wanted ELSE current

\* Controller::set_power: if (!this->power_state) front_buffer_index = -1.
FrontAfterPower(power, front) == IF ~power THEN NoFront ELSE front

\* Controller::start, the loop that initializes the framebuffer: the slot
\* that receives the copy of the blank frame made for a frame index. The
\* destination pointer fb_data is not advanced by the loop.
FillTarget(frame) == 0

\* The framebuffer after the loop, given the contents found in the mapping.
FillBlank(mem) ==
    [s \in Slots |-> IF \E frame \in Slots : FillTarget(frame) = s
                     THEN "blank" ELSE mem[s]]

\* Contents the device memory can hold when it is mapped.
MappedContents == [Slots -> {"blank", "stale"}]

\* Controller::stop: if (this->scanout_fb).
AlwaysUnmap(fb) == TRUE
NeedsUnmap(fb) == fb # "nullptr"

\* Controller::page_flip: the request of the ioctl.
FlipRequest(front) ==
    IF front = NoFront THEN "FBIOPUT_VSCREENINFO" ELSE "FBIOPAN_DISPLAY"

\* Controller::page_flip: back_buffer_index = (front_buffer_index + 1) % 2.
NextBackSame(front) == front
NextBack(front) == (front + 1) % 2

\* Controller::start
CtlStart ==
    /\ ctl_calls < MaxCalls
    /\ scanout_fb = "nullptr"
    /\ ctl_calls' = ctl_calls + 1
    /\ ctl_op' = "start"
    /\ ctl_power_state' = CtlPower(ctl_power_state, TRUE)
    /\ front_buffer_index' =
           FrontAfterPower(ctl_power_state', front_buffer_index)
    /\ scanout_fb' = "mapped"
    /\ \E mem \in MappedContents : fb_mem' = FillBlank(mem)
    /\ UNCHANGED <<back_buffer_index, munmap_calls, last_request, pipeline, calc>>

\* Controller::stop
CtlStop ==
    /\ ctl_calls < MaxCalls
    /\ ctl_calls' = ctl_calls + 1
    /\ ctl_op' = IF ctl_op \in {"stop", "stop_again"}
                 THEN "stop_again" ELSE "stop"
    /\ IF NeedsUnmap(scanout_fb)
       THEN /\ munmap_calls' = munmap_calls + 1
            /\ scanout_fb' = "nullptr"
            /\ fb_mem' = [s \in Slots |-> "unmapped"]
       ELSE UNCHANGED <<munmap_calls, scanout_fb, fb_mem>>
    /\ ctl_power_state' = CtlPower(ctl_power_state, FALSE)
    /\ front_buffer_index' =
           FrontAfterPower(ctl_power_state', front_buffer_index)
    /\ UNCHANGED <<back_buffer_index, last_request, pipeline, calc>>

\* Controller::set_power
CtlSetPower(wanted) ==
    /\ ctl_calls < MaxCalls
    /\ ctl_calls' = ctl_calls + 1
    /\ ctl_op' = "set_power"
    /\ ctl_power_state' = CtlPower(ctl_power_state, wanted)
    /\ front_buffer_index' =
           FrontAfterPower(ctl_power_state', front_buffer_index)
    /\ UNCHANGED <<scanout_fb, fb_mem, back_buffer_index, munmap_calls,
                   last_request, pipeline, calc>>

\* Controller::get_back_buffer: the owner copies a generated frame to
\* scanout_fb + back_buffer_index * frame_size.
CtlWriteBack ==
    /\ ctl_calls < MaxCalls
    /\ scanout_fb = "mapped"
    /\ ctl_calls' = ctl_calls + 1
    /\ ctl_op' = "write"
    /\ fb_mem' = [fb_mem EXCEPT ![back_buffer_index] = "frame"]
    /\ UNCHANGED <<scanout_fb, front_buffer_index, back_buffer_index,
                   ctl_power_state, munmap_calls, last_request, pipeline, calc>>

\* Controller::page_flip: the ioctl succeeds and the indices are updated, or
\* it fails and std::system_error is thrown.
CtlPageFlip(ok) ==
    /\ ctl_calls < MaxCalls
    /\ scanout_fb = "mapped"
    /\ ctl_calls' = ctl_calls + 1
    /\ last_request' = FlipRequest(front_buffer_index)
    /\ IF ok
       THEN /\ ctl_op' = "flip"
            /\ front_buffer_index' = back_buffer_index
            /\ back_buffer_index' = NextBack(front_buffer_index')
       ELSE /\ ctl_op' = "flip_failed"
            /\ UNCHANGED <<front_buffer_index, back_buffer_index>>
    /\ UNCHANGED <<scanout_fb, fb_mem, ctl_power_state, munmap_calls,
                   pipeline, calc>>

NextController ==
    \/ CtlStart
    \/ CtlStop
    \/ \E wanted \in BOOLEAN : CtlSetPower(wanted)
    \/ CtlWriteBack
    \/ \E ok \in BOOLEAN : CtlPageFlip(ok)

SpecController == Init /\ [][NextController]_vars

(***************************************************************************)
(* Display::merge_updates alone, called by generate_immediate with a queue *)
(* of up to MaxQueue pending updates.                                      *)
(***************************************************************************)
\* Regions of the panel carried by the updates of the queue.
MergeRegions == {Rect(0, 0, 1, 1), Rect(epd_height - 1, epd_width - 1, 1, 1)}

\* The update generate_immediate is processing, with id 0.
MergeCurrents ==
    {MkUpdate(0, mode, TRUE, region) : mode \in {0, 1}, region \in MergeRegions}

\* Updates that can be pending with a given id.
MergePending(id) ==
    {MkUpdate(id, mode, immediate, region) :
        mode \in {0, 1}, immediate \in BOOLEAN, region \in MergeRegions}

\* Queues of n pending updates, whose ids follow the id of the current update.
RECURSIVE MergeQueues(_)
MergeQueues(n) ==
    IF n = 0 THEN {<<>>}
    ELSE {Append(q, u) : q \in MergeQueues(n - 1), u \in MergePending(n)}

\* generate_immediate is about to call merge_updates for its next frame.
MergeSetup(cur, q) ==
    /\ gen_pc = "off"
    /\ cur_update' = cur
    /\ pending_updates' = q
    /\ next_intensity' = Apply(cur, current_intensity)
    /\ gen_pc' = "merging"
    /\ UNCHANGED <<started, stopFlags, power_state, next_update_id,
                   processing_updates, slot, flags, steps, frames_made,
                   finished, send_finalize, vs_pc, vsLocals, stop_pc, waiters,
                   pushHist, starts, completed, frameHist, current_intensity,
                   pending_at_stop, flipped_since_on, pushed_twice, ctl, calc>>

\* this->merge_updates(update, next_intensity)
MergeCall ==
    /\ gen_pc = "merging"
    /\ cur_update' = MergeUpdates(cur_update, pending_updates)[1]
    /\ pending_updates' = MergeUpdates(cur_update, pending_updates)[2]
    /\ next_intensity' =
           MergeIntensity(cur_update, pending_updates, next_intensity)
    /\ gen_pc' = "merged"
    /\ UNCHANGED <<started, stopFlags, power_state, next_update_id,
                   processing_updates, slot, flags, steps, frames_made,
                   finished, send_finalize, vs_pc, vsLocals, stop_pc, waiters,
                   pushHist, starts, completed, frameHist, current_intensity,
                   pending_at_stop, flipped_since_on, pushed_twice, ctl, calc>>

NextMerge ==
    \/ \E n \in 0 .. MaxQueue : \E cur \in MergeCurrents, q \in MergeQueues(n) :
          MergeSetup(cur, q)
    \/ MergeCall

SpecMerge == Init /\ [][NextMerge]_vars

(***************************************************************************)
(* Frame generation: generate_batch and generate_immediate processing one  *)
(* update, with the frames they hand to send_frames written byte by byte.  *)
(***************************************************************************)
\* enum class Phase
Noop == 0
Black == 1
White == 2

\* waveform[k][prev][next]: the phase applied at step k to bring a cell from
\* an intensity to another. The table leaves a cell that has its target
\* intensity alone.
Waveform(k, prev, next) ==
    IF prev = next THEN Noop ELSE IF next > prev THEN White ELSE Black

\* The third byte of each pixel of the null frame: a fixed value that depends
\* on the row and the column of the pixel.
NullControl(row, col) ==
    IF row = 0 THEN 67 ELSE IF col = 0 THEN 65 ELSE 83

\* this->null_frame, as initialized by start()
null_frame ==
    [o \in 0 .. buf_frame - 1 |->
        IF o % buf_depth = 2
        THEN NullControl((o \div buf_depth) \div buf_width,
                         (o \div buf_depth) % buf_width)
        ELSE 0]

\* Display::align_region: left is rounded down and width rounded up to
\* multiples of buf_actual_depth.
AlignRegion(region) ==
    IF region.width % buf_actual_depth = 0 /\ region.left % buf_actual_depth = 0
    THEN region
    ELSE LET pad_left == region.left % buf_actual_depth
             padded == U(pad_left + region.width + (buf_actual_depth - 1))
         IN [region EXCEPT !.left = region.left - pad_left,
                           !.width = padded - (padded % buf_actual_depth)]

\* The position in a frame of the first byte written for a region.
DataStartNoMargin(region) ==
    region.top * buf_stride + (region.left \div buf_actual_depth) * buf_depth
DataStart(region) ==
    (margin_top + region.top) * buf_stride
    + (margin_left + region.left \div buf_actual_depth) * buf_depth

\* Phases packed two bits each, the first phase in the highest bits.
RECURSIVE PackPhases(_)
PackPhases(phases) ==
    IF phases = <<>> THEN 0
    ELSE 4 * PackPhases(SubSeq(phases, 1, Len(phases) - 1))
         + phases[Len(phases)]

\* The two bytes written for a group of buf_actual_depth phases: the first
\* byte holds the second half of the phases, the second byte the first half.
PackBytes(phases) ==
    LET half == buf_actual_depth \div 2
    IN << PackPhases(SubSeq(phases, half + 1, buf_actual_depth)),
          PackPhases(SubSeq(phases, 1, half)) >>

\* The pixel found at a position of an intensity array.
PixelAt(index) == <<index % epd_width, index \div epd_width>>

\* Number of groups per row walked by generate_batch and check_consecutive.
BatchGroups(region) == region.width \div buf_actual_depth

\* Position in the intensity arrays read by generate_batch and
\* check_consecutive for the group x of the row y of a region.
BatchIndex(region, y, x) ==
    region.top * epd_width + region.left
    + y * (BatchGroups(region) * buf_actual_depth + epd_width - region.width)
    + x * buf_actual_depth

\* The intensities of a group, read from an intensity array.
GroupOf(array, region, i) ==
    LET y == i \div BatchGroups(region)
        x == i % BatchGroups(region)
    IN [j \in 1 .. buf_actual_depth |->
           array[PixelAt(BatchIndex(region, y, x) + j - 1)]]

\* Display::check_consecutive: the group reads the same intensities as the
\* group before it (the buffer of an update holds a single value here).
CheckConsecutive(update, cur, i) ==
    /\ i > 0
    /\ GroupOf(cur, update.region, i - 1) = GroupOf(cur, update.region, i)

\* The bytes written by generate_batch for the group i of the frame k.
RECURSIVE BatchBytes(_, _, _, _, _)
BatchBytes(update, cur, next, k, i) ==
    IF CheckConsecutive(update, cur, i)
    THEN BatchBytes(update, cur, next, k, i - 1)
    ELSE LET prev == GroupOf(cur, update.region, i)
             target == GroupOf(next, update.region, i)
         IN PackBytes([j \in 1 .. buf_actual_depth |->
                          Waveform(k, prev[j], target[j])])

\* The frame k generated by generate_batch.
BatchFrame(update, cur, next, k) ==
    LET region == update.region
        groups == BatchGroups(region)
        Position(y, x) == DataStart(region) + y * buf_stride + x * buf_depth
        Written == (0 .. region.height - 1) \X (0 .. groups - 1)
    IN [o \in 0 .. buf_frame - 1 |->
           IF \E g \in Written : o \in {Position(g[1], g[2]),
                                        Position(g[1], g[2]) + 1}
           THEN LET g == CHOOSE g \in Written :
                            o \in {Position(g[1], g[2]), Position(g[1], g[2]) + 1}
                    bytes == BatchBytes(update, cur, next, k,
                                        g[1] * groups + g[2])
                IN bytes[o - Position(g[1], g[2]) + 1]
           ELSE null_frame[o]]

\* The phase computed by generate_immediate for a pixel of the aligned
\* region: pixels outside of the region of the update are left alone.
ImmediatePhase(update, cur, next, st, x, y) ==
    IF Contains(update.region, x, y)
    THEN IF st[<<x, y>>] < step_count
         THEN Waveform(st[<<x, y>>], cur[<<x, y>>], next[<<x, y>>])
         ELSE Noop
    ELSE Noop

\* The frame generated by one iteration of the loop of generate_immediate.
ImmediateFrame(update, cur, next, st) ==
    LET aligned == AlignRegion(update.region)
        groups == aligned.width \div buf_actual_depth
        Position(y, x) == DataStart(aligned) + y * buf_stride + x * buf_depth
        Written == (0 .. aligned.height - 1) \X (0 .. groups - 1)
    IN [o \in 0 .. buf_frame - 1 |->
           IF \E g \in Written : o \in {Position(g[1], g[2]),
                                        Position(g[1], g[2]) + 1}
           THEN LET g == CHOOSE g \in Written :
                            o \in {Position(g[1], g[2]), Position(g[1], g[2]) + 1}
                    sx == aligned.left + g[2] * buf_actual_depth
                    bytes == PackBytes([j \in 1 .. buf_actual_depth |->
                                 ImmediatePhase(update, cur, next, st,
                                                sx + j - 1,
                                                aligned.top + g[1])])
                IN bytes[o - Position(g[1], g[2]) + 1]
           ELSE null_frame[o]]

\* Regions of the panel that push_update accepts.
FrameRegions ==
    {Rect(t, l, w, h) : t \in 0 .. epd_height - 1, l \in 0 .. epd_width - 1,
                        w \in 1 .. epd_width, h \in 1 .. epd_height}
    \ {r \in {Rect(t, l, w, h) : t \in 0 .. epd_height - 1,
                                 l \in 0 .. epd_width - 1,
                                 w \in 1 .. epd_width, h \in 1 .. epd_height} :
          OutOfBounds(r)}

\* Contents of current_intensity when the update is processed: a uniform
\* panel, of another intensity than the update or of the same one, and a
\* panel of two intensities.
StartIntensities ==
    { [p \in Panel |-> 0], [p \in Panel |-> 1],
      [p \in Panel |-> (p[1] \div buf_actual_depth + p[2]) % 2] }

\* An update of a region of the panel is popped while current_intensity holds
\* one of the start contents.
FrameSetup(immediate, region, start) ==
    /\ gen_pc = "off"
    /\ cur_update' = MkUpdate(0, 0, immediate, region)
    /\ current_intensity' = start
    /\ frame_call' = [op |-> "generate",
                      update |-> MkUpdate(0, 0, immediate, region),
                      start |-> start, region |-> region]
    /\ gen_pc' = IF immediate THEN "imm" ELSE "batch"
    /\ UNCHANGED <<started, stopFlags, power_state, queue, processing_updates,
                   slot, flags, steps, frames_made, finished, send_finalize,
                   vs_pc, vsLocals, stop_pc, waiters, pushHist, starts,
                   completed, frameHist, next_intensity, pending_at_stop,
                   flipped_since_on, pushed_twice, ctl, extend_call,
                   lookup_call, transform_call, sent_frames, wbf_call>>

\* Display::generate_batch
FrameBatch ==
    /\ gen_pc = "batch"
    /\ LET next == Apply(cur_update, current_intensity)
       IN /\ sent_frames' =
                 [k \in 1 .. step_count |->
                     BatchFrame(cur_update, current_intensity, next, k - 1)]
          /\ next_intensity' = next
          /\ current_intensity' = next
    /\ frames_made' = step_count
    /\ gen_pc' = "done"
    /\ UNCHANGED <<started, stopFlags, power_state, queue, processing_updates,
                   slot, flags, cur_update, steps, finished, send_finalize,
                   vs_pc, vsLocals, stop_pc, waiters, pushHist, starts,
                   completed, frameHist, pending_at_stop, flipped_since_on,
                   pushed_twice, ctl, extend_call, lookup_call,
                   transform_call, frame_call, wbf_call>>

\* One iteration of the loop of Display::generate_immediate: the compatible
\* updates of the queue are merged, then the frame is generated and handed to
\* send_frames unless no pixel advanced, in which case the loop is left and
\* current_intensity takes the target intensities.
FrameImmediate ==
    /\ gen_pc = "imm"
    /\ LET merged == MergeUpdates(cur_update, pending_updates)
           update == merged[1]
           applied == IF frames_made = 0
                      THEN Apply(cur_update, current_intensity)
                      ELSE next_intensity
           next == MergeIntensity(cur_update, pending_updates, applied)
           advancing == Advancing(update.region, steps)
       IN /\ pending_updates' = merged[2]
          /\ next_intensity' = next
          /\ steps' = [p \in Panel |->
                          IF p \in advancing THEN steps[p] + 1 ELSE steps[p]]
          /\ finished' = (advancing = {})
          /\ IF advancing = {}
             THEN /\ current_intensity' = next
                  /\ gen_pc' = "done"
                  /\ cur_update' = update
                  /\ UNCHANGED <<sent_frames, frame_call, frames_made>>
             ELSE /\ sent_frames' =
                         <<ImmediateFrame(update, current_intensity,
                                          next, steps)>>
                  /\ frame_call' =
                         [frame_call EXCEPT !.region = update.region]
                  /\ cur_update' =
                         [update EXCEPT
                             !.region = ExtendAll(EmptyRegion, advancing)]
                  /\ frames_made' = frames_made + 1
                  /\ UNCHANGED <<current_intensity, gen_pc>>
    /\ UNCHANGED <<started, stopFlags, power_state, next_update_id,
                   processing_updates,
                   slot, flags, send_finalize, vs_pc, vsLocals, stop_pc,
                   waiters, pushHist, starts, completed, frameHist,
                   pending_at_stop, flipped_since_on, pushed_twice, ctl,
                   extend_call, lookup_call, transform_call, wbf_call>>

NextFrames ==
    \/ \E immediate \in BOOLEAN, region \in FrameRegions,
          start \in StartIntensities : FrameSetup(immediate, region, start)
    \/ FrameBatch
    \/ FrameImmediate

SpecFrames == Init /\ [][NextFrames]_vars

(***************************************************************************)
(* generate_immediate processing an update while the clients push updates   *)
(* that merge_updates absorbs between two frames.                           *)
(***************************************************************************)
\* Regions of the first update: one or two pixels of the panel.
ImmediateRegions == {r \in FrameRegions : r.width * r.height <= 2}

NextImmediate ==
    \/ \E region \in ImmediateRegions, start \in StartIntensities :
          FrameSetup(TRUE, region, start)
    \/ \E in \in ClientInputs : PushUpdate(in[1], in[2], in[3], in[4])
    \/ FrameImmediate

SpecImmediate == Init /\ [][NextImmediate]_vars

(***************************************************************************)
(* Pure functions, each called once with arguments from a bounded set:     *)
(* WaveformTable::lookup, Region::extend and the coordinate transform of   *)
(* push_update.                                                            *)
(***************************************************************************)
\* Values of a temperature threshold (Temperature = std::int8_t) and of the
\* temperature given to lookup (int).
Temperatures == -(2 ^ (TempBits - 1)) .. 2 ^ (TempBits - 1) - 1
TemperatureInputs == -(2 ^ TempBits) .. 2 ^ TempBits - 1

\* Tables of n thresholds, in increasing order as the WBF file lists them.
RECURSIVE TemperatureTables(_)
TemperatureTables(n) ==
    IF n = 0 THEN {<<>>}
    ELSE {Append(ts, t) : ts \in TemperatureTables(n - 1), t \in Temperatures}
         \cap {ts \in [1 .. n -> Temperatures] :
                  \A i \in 1 .. n - 1 : ts[i] <= ts[i + 1]}

\* std::upper_bound: the offset of the first threshold greater than the
\* temperature, the size of the table if there is none.
LowerBound(temperatures, t) ==
    LET greater == {i \in 1 .. Len(temperatures) : t <= temperatures[i]}
    IN IF greater = {} THEN Len(temperatures)
       ELSE (CHOOSE i \in greater : \A j \in greater : i <= j) - 1
UpperBound(temperatures, t) ==
    LET greater == {i \in 1 .. Len(temperatures) : t < temperatures[i]}
    IN IF greater = {} THEN Len(temperatures)
       ELSE (CHOOSE i \in greater : \A j \in greater : i <= j) - 1

\* WaveformTable::lookup: the range selected, or the exception thrown.
Lookup(mode_count, temperatures, mode, temperature) ==
    IF mode < 0 \/ mode >= mode_count
    THEN [ok |-> FALSE, error |-> "out_of_range", range |-> 0]
    ELSE LET it == IF temperature < -(2 ^ (TempBits - 1)) THEN 0
                   ELSE IF temperature > 2 ^ (TempBits - 1) - 1
                        THEN Len(temperatures)
                        ELSE UpperBound(temperatures, temperature)
         IN IF it = 0
            THEN [ok |-> FALSE, error |-> "out_of_range", range |-> 0]
            ELSE IF it = Len(temperatures)
                 THEN [ok |-> FALSE, error |-> "out_of_range", range |-> 0]
                 ELSE [ok |-> TRUE, error |-> "none", range |-> it - 1]

\* One call is made over a run.
NoCallMade ==
    /\ lookup_call = NoCall /\ extend_call = NoCall /\ transform_call = NoCall
    /\ wbf_call = NoCall

\* table.lookup(mode, temperature)
LookupCall(mode_count, temperatures, mode, temperature) ==
    /\ NoCallMade
    /\ lookup_call' =
           [op |-> "lookup", mode_count |-> mode_count,
            temperatures |-> temperatures, mode |-> mode,
            temperature |-> temperature,
            result |-> Lookup(mode_count, temperatures, mode, temperature)]
    /\ UNCHANGED <<pipeline, ctl, extend_call, transform_call, sent_frames,
                   frame_call, wbf_call>>

\* Coordinates of the regions given to extend: small values and the largest
\* value of the coordinate type.
ExtendCoords == {0, 1, Word - 1}
ExtendRegions ==
    {Rect(t, l, w, h) : t \in ExtendCoords, l \in ExtendCoords,
                        w \in 0 .. 2, h \in 0 .. 2}

\* a.extend(b) and b.extend(a)
ExtendCall(a, b) ==
    /\ NoCallMade
    /\ extend_call' = [op |-> "extend", a |-> a, b |-> b,
                       ab |-> Extend(a, b), ba |-> Extend(b, a)]
    /\ UNCHANGED <<pipeline, ctl, lookup_call, transform_call, sent_frames,
                   frame_call, wbf_call>>

\* Regions given by the clients with a buffer of at most MaxArea pixels, and
\* the buffers of a region: intensities below and above intensity_values.
TransformRegions ==
    {r \in {Rect(t, l, w, h) : t \in 0 .. epd_width - 1,
                               l \in 0 .. epd_height - 1,
                               w \in 1 .. epd_height, h \in 1 .. epd_width} :
        r.width * r.height <= MaxArea /\ ~OutOfBounds(TransformRegion(r))}
TransformBuffers(region) ==
    [1 .. region.width * region.height -> {0, 1, intensity_values + 2}]

\* The transform of push_update applied to a region and its buffer, then
\* applied again to the result.
TransformCall(region, buffer) ==
    /\ NoCallMade
    /\ LET region1 == TransformRegion(region)
           buffer1 == TransformBuffer(region, buffer)
       IN transform_call' =
              [op |-> "transform", region |-> region, buffer |-> buffer,
               region1 |-> region1, buffer1 |-> buffer1,
               region2 |-> TransformRegion(region1),
               buffer2 |-> TransformBuffer(region1, buffer1)]
    /\ UNCHANGED <<pipeline, ctl, extend_call, lookup_call, sent_frames,
                   frame_call, wbf_call>>

NextCalls ==
    \/ \E mode_count \in 1 .. MaxModes, n \in 0 .. MaxTemps :
          \E temperatures \in TemperatureTables(n), mode \in 0 .. MaxModes,
             temperature \in TemperatureInputs :
             LookupCall(mode_count, temperatures, mode, temperature)
    \/ \E a \in ExtendRegions, b \in ExtendRegions : ExtendCall(a, b)
    \/ \E region \in TransformRegions :
          \E buffer \in TransformBuffers(region) : TransformCall(region, buffer)

SpecCalls == Init /\ [][NextCalls]_vars

(***************************************************************************)
(* The pipeline while stop() is not called and every page flip succeeds,    *)
(* with the generator thread, the vsync thread and the waiting clients      *)
(* scheduled fairly.                                                        *)
(***************************************************************************)
\* Display::run_generator_thread: the steps of the generator thread.
GeneratorThread ==
    \/ GenPop \/ GenPopBlock \/ GenBatch \/ GenImmediate
    \/ GenSend \/ GenSendBlock \/ GenSendW \/ GenSendR \/ GenSendNotify

\* Display::run_vsync_thread: the steps of the vsync thread when the ioctl of
\* the page flip succeeds. The timeout of the first wait always elapses.
VsyncThread ==
    \/ VsyncWait \/ VsyncWaitBlock \/ VsyncTimeout
    \/ VsyncWaitOff \/ VsyncWaitOffBlock
    \/ VsyncFlip \/ VsyncComplete
    \/ VsyncRelW \/ VsyncRelR \/ VsyncRelNotify

\* A client returns from wait_for or wait_for_all once its predicate holds.
ClientReturns ==
    \/ \E p \in Waiters : WaitForReturn(p)
    \/ \E p \in Waiters : WaitForAllReturn(p)

NextLive ==
    \/ Start
    \/ \E immediate \in BOOLEAN : PushUpdate(0, immediate, PixelA, 1)
    \/ GeneratorThread
    \/ VsyncThread
    \/ \E p \in Waiters : \E id \in Range(returned) : WaitFor(p, id)
    \/ \E p \in Waiters : WaitForAll(p)
    \/ ClientReturns

SpecLive ==
    /\ Init
    /\ [][NextLive]_vars
    /\ WF_vars(GeneratorThread)
    /\ WF_vars(VsyncThread)
    /\ WF_vars(ClientReturns)


(***************************************************************************)
(* The parser of the waveform file (WaveformTable::from_wbf and the         *)
(* functions it calls), one call over a run.                                *)
(***************************************************************************)

\* Longest run of bytes that parse_waveform reads from a block.
MaxBlock == 5

\* The byte that switches the repeat mode, and the byte that ends a block in
\* repeat mode (0xFC and 0xFF).
repeat_toggle == 252
block_end == 255

\* Bytes of the blocks: the two bytes above, a data byte whose four bit pairs
\* are equal and one whose bit pairs ascend from the left (0x1B).
BlockBytes == {0, 27, repeat_toggle, block_end}

\* The four phases of a data byte in the order parse_waveform writes them,
\* with the rightmost bit pair first
PhasesLowFirst(byte) ==
    <<byte % 4, (byte \div 4) % 4, (byte \div 16) % 4, byte \div 64>>

\* The four phases p1, p2, p3, p4 of a data byte, in the order parse_waveform
\* writes them: p1 is the leftmost bit pair (byte >> 6), p4 the rightmost
\* (byte & 3).
Phases(byte) ==
    <<byte \div 64, (byte \div 16) % 4, (byte \div 4) % 4, byte % 4>>

\* for (n = 0; n < repeat; ++n) { ... }: the phases written by the first half
\* of the iterations, then by the others.
RECURSIVE Repeated(_, _)
Repeated(phases, repeat) ==
    IF repeat = 0 THEN <<>>
    ELSE IF repeat = 1 THEN phases
    ELSE Repeated(phases, repeat \div 2)
            \o Repeated(phases, repeat - (repeat \div 2))

\* The loop of parse_waveform from the byte at pos of bytes, the range
\* [begin, end - 2) of the block: the phases it writes into the matrix, in
\* the order it writes them.
RECURSIVE ParseFrom(_, _, _)
ParseFrom(bytes, pos, repeat_mode) ==
    IF pos > Len(bytes) THEN <<>>
    ELSE LET byte == bytes[pos]
         IN IF byte = repeat_toggle
            THEN ParseFrom(bytes, pos + 1, ~repeat_mode)
            ELSE IF repeat_mode /\ pos + 1 <= Len(bytes)
                 THEN IF byte = block_end
                      THEN <<>>
                      ELSE Repeated(Phases(byte), bytes[pos + 1] + 1)
                              \o ParseFrom(bytes, pos + 2, repeat_mode)
                 ELSE Phases(byte) \o ParseFrom(bytes, pos + 1, repeat_mode)

\* The matrices pushed to the result: the phases are written to
\* matrix[j++][i], j returns to zero and i advances when j reaches
\* intensity_values, and the matrix is pushed and i returns to zero when i
\* reaches intensity_values. A matrix that is not full is not pushed.
Matrices(phases) ==
    LET cells == intensity_values * intensity_values
    IN [m \in 1 .. Len(phases) \div cells |->
           [j \in 0 .. intensity_values - 1 |->
               [i \in 0 .. intensity_values - 1 |->
                   phases[(m - 1) * cells + i * intensity_values + j + 1]]]]

\* parse_waveform(begin, end) on a block of at least two bytes
ParseWaveform(block) ==
    Matrices(ParseFrom(SubSeq(block, 1, Len(block) - 2), 1, TRUE))

ParseWaveformCall(block) ==
    /\ NoCallMade
    /\ wbf_call' = [op |-> "parse_waveform", block |-> block,
                    result |-> ParseWaveform(block)]
    /\ UNCHANGED <<pipeline, ctl, extend_call, lookup_call, transform_call,
                   sent_frames, frame_call>>


\* Size in bytes of the file given to from_wbf, and the largest values of
\* the fields mode_count and temp_range_count of its header.
FileSize == 4
MaxModeField == 1
MaxTempField == 1

\* The elements of a std::set, in the order of its iteration.
RECURSIVE Ascending(_)
Ascending(set) ==
    IF set = {} THEN <<>>
    ELSE LET least == CHOOSE a \in set : \A b \in set : a <= b
         IN <<least>> \o Ascending(set \ {least})

\* find_waveform_blocks: the addresses of the table, each one once, in
\* ascending order.
FindWaveformBlocks(table) ==
    Ascending({table[mode][temp] : mode \in DOMAIN table,
                                   temp \in DOMAIN table[0]})

\* std::lower_bound(blocks.cbegin(), blocks.cend(), val) - blocks.cbegin():
\* the binary search of the library over the len elements from first, which
\* finds the first element that is not less than val when blocks is sorted.
RECURSIVE LowerBoundFrom(_, _, _, _)
LowerBoundFrom(blocks, first, len, val) ==
    IF len = 0 THEN first
    ELSE LET half == len \div 2
             middle == first + half
         IN IF blocks[middle + 1] < val
            THEN LowerBoundFrom(blocks, middle + 1, len - half - 1, val)
            ELSE LowerBoundFrom(blocks, first, half, val)

\* parse_waveforms: one waveform for each block but the last, given here as
\* the range [begin, end) of the file that it is parsed from, and the place
\* of each address of the table in blocks.
ParseWaveforms(blocks, table) ==
    [waveforms |-> [k \in 1 .. Len(blocks) - 1 |->
                       [begin |-> blocks[k], end |-> blocks[k + 1]]],
     lookup |-> [mode \in DOMAIN table |->
                    [temp \in DOMAIN table[mode] |->
                        LowerBoundFrom(blocks, 0, Len(blocks),
                                       table[mode][temp])]]]

\* parse_waveform(begin, end) reads the bytes of [begin, end - 2): it stays
\* inside of a file of the given size when begin is not after end - 2 and
\* end not after the end of the file. Otherwise begin never meets end and
\* the loop reads on, past the end of the file, until it finds the byte that
\* ends a block in repeat mode or the read faults.
ReadsInside(waveform, size) ==
    waveform.begin <= waveform.end - 2 /\ waveform.end <= size

\* from_wbf on a file of FileSize bytes whose checksums are right: the size
\* written in its header, the two counts of its header and its table of
\* block addresses. A call that reads outside of the file either faults or
\* returns.
FromWbfCall(filesize, mode_field, temp_field, table, faults) ==
    /\ NoCallMade
    /\ LET blocks == Append(FindWaveformBlocks(table), FileSize)
           parsed == ParseWaveforms(blocks, table)
           inside == \A k \in 1 .. Len(parsed.waveforms) :
                        ReadsInside(parsed.waveforms[k], FileSize)
       IN /\ faults => (filesize = FileSize /\ ~inside)
          /\ wbf_call' =
                 IF filesize # FileSize
                 THEN [op |-> "from_wbf", table |-> table, ok |-> FALSE,
                       error |-> "runtime_error"]
                 ELSE IF faults
                 THEN [op |-> "from_wbf", table |-> table, ok |-> FALSE,
                       error |-> "fault"]
                 ELSE [op |-> "from_wbf", table |-> table, ok |-> TRUE,
                       inside |-> inside,
                       mode_count |-> mode_field + 1,
                       temperatures |-> temp_field + 2,
                       waveforms |-> parsed.waveforms,
                       lookup |-> parsed.lookup]
    /\ UNCHANGED <<pipeline, ctl, extend_call, lookup_call, transform_call,
                   sent_frames, frame_call>>

\* One call of parse_waveform over a run, on a block of at most MaxBlock
\* bytes followed by the two bytes that parse_waveform skips.
ParseWaveformCalls ==
    /\ NoCallMade
    /\ \E n \in 0 .. MaxBlock :
          \E data \in [1 .. n -> BlockBytes] :
             ParseWaveformCall(data \o <<block_end, repeat_toggle>>)

\* One call of from_wbf over a run, on a file with one block address for
\* each mode and temperature range. An address is the offset of a byte of
\* the file, its size or one past its size: parse_pointer does not compare a
\* pointer to the size of the file.
FromWbfCalls ==
    /\ NoCallMade
    /\ \E filesize \in {FileSize - 1, FileSize},
          mode_field \in 0 .. MaxModeField, temp_field \in 0 .. MaxTempField,
          faults \in BOOLEAN :
          \E table \in [0 .. mode_field ->
                           [0 .. temp_field -> 0 .. FileSize + 1]] :
             FromWbfCall(filesize, mode_field, temp_field, table, faults)

NextWbf == ParseWaveformCalls \/ FromWbfCalls

SpecWbf == Init /\ [][NextWbf]_vars

(***************************************************************************)
(* Properties.                                                             *)
(***************************************************************************)
\* The last (finalize) frame of the update carrying id was scanned out.
ScannedOut(id) ==
    \E i \in 1 .. Len(flipped) : flipped[i].last /\ id \in flipped[i].ids

\* C1: wait_for(id), for an id returned by an accepted push_update, returns
\* only after the vsync thread scanned out the last (finalize) frame of the
\* update that carries id.
C1_WaitForReturnsAfterScanOut ==
    \A p \in Waiters : prod_pc[p] = "wait_for_done" => ScannedOut(wait_id[p])

C3_InFlightEmptyIffAllCompleted ==
    (processing_updates = {}) <=> (Range(returned) \subseteq Range(completed))

C3_Witness ==
    /\ processing_updates = {}
    /\ Len(returned) = MaxPush
    /\ Range(returned) \subseteq Range(completed)

\* The ids of the updates held by the generator: from pop_update until the
\* hand-off of the last frames of the update.
HeldByGenerator ==
    IF \/ gen_pc \in {"imm", "batch", "send", "send_enter", "send_blocked"}
       \/ gen_pc \in {"send_w", "send_r", "send_n"} /\ ~send_finalize
    THEN Range(cur_update.id) ELSE {}

\* The ids of the update in the rendezvous slot: from the hand-off until the
\* vsync thread went through its completion path.
InSlot ==
    IF \/ gen_pc \in {"send_w", "send_r"}
       \/ vsync_can_read /\ vs_pc \notin {"rel_w", "rel_r"}
    THEN Range(vsync_update.id) ELSE {}

InQueue ==
    UNION {Range(pending_updates[i].id) : i \in 1 .. Len(pending_updates)}

\* C4: every id carried by an update that is in the pending queue, held by
\* the generator, or in the rendezvous slot is in the in-flight set.
C4_CarriedIdsAreInFlight ==
    (InQueue \cup HeldByGenerator \cup InSlot) \subseteq processing_updates

\* The region lies outside of the panel once transformed: in exact
\* arithmetic, left + width exceeds the panel height or top + height exceeds
\* the panel width.
OutsidePanel(region) ==
    \/ region.left + region.width > epd_height
    \/ region.top + region.height > epd_width

\* C5: a push_update whose buffer size differs from width * height, or whose
\* region lies outside of the panel after the transform, is not accepted.
C5_InvalidPushIsRejected ==
    (/\ last_push.result # "init"
     /\ \/ last_push.buflen # last_push.region.width * last_push.region.height
        \/ OutsidePanel(last_push.region))
    => last_push.result # "ok"

\* C6: push_update called with a mode kind unknown to the waveform table
\* returns the empty result.
C6_UnknownKindReturnsNone ==
    last_push.unknown_kind => last_push.result = "none"

C8_FramesHandedInFifoOrder ==
    \A i, j \in 1 .. Len(handed) : i < j => handed[i].u <= handed[j].u

C8_Witness ==
    \E i, j \in 1 .. Len(handed) : i < j /\ handed[i].u < handed[j].u

\* The frames scanned out are the first frames handed over, in order.
IsPrefix(s, t) == Len(s) <= Len(t) /\ \A i \in 1 .. Len(s) : s[i] = t[i]

\* Both threads wait on the rendezvous while frames handed over were not
\* scanned out.
BatchLost ==
    /\ Len(flipped) < Len(handed)
    /\ ~vsync_can_read
    /\ ~vsync_can_write
    /\ gen_pc \notin {"send_w", "send_r"}
    /\ vs_pc \in {"wait1", "wait1_enter", "wait1_blocked",
                  "wait2", "wait2_enter", "wait2_blocked"}

\* C9: every frame handed over through send_frames is page-flipped exactly
\* once, in the order of generation; no frame and no batch of frames is
\* skipped, lost or scanned out twice.
C9_FramesFlippedOnceInOrder ==
    /\ IsPrefix(flipped, handed)
    /\ ~BatchLost

\* C10: stop() on a started pipeline always completes: it never joins a
\* thread that waits on a condition which nobody is left to notify.
C10_StopCompletes ==
    /\ ~(stop_pc = "join_v" /\ vs_pc = "wait2_blocked")
    /\ ~(stop_pc = "join_g" /\ gen_pc = "send_blocked"
         /\ vs_pc \in {"wait2_blocked", "exited"})

\* C11: the updates that are in the pending queue when stop() is called are
\* discarded: none of them is dequeued afterwards, by pop_update or by
\* merge_updates, and none of them is turned into frames.
C11_PendingAtStopIsDiscarded ==
    /\ Range(cur_update.id) \cap pending_at_stop = {}
    /\ \A i \in 1 .. Len(handed) : handed[i].ids \cap pending_at_stop = {}

\* The vsync thread returned although stop() did not ask it to: a page flip
\* failed.
VsyncThreadDied == vs_pc = "exited" /\ ~stopping_vsync

\* C12: once the vsync thread has terminated because a page flip failed, the
\* next call of push_update reports that the background thread died.
C12_PushAfterFlipFailureReportsDeadThread ==
    [][(VsyncThreadDied /\ pushes' = pushes + 1)
       => last_push'.result = "died"]_vars

\* The vsync thread waits for frames without a timeout.
WaitsWithoutTimeout == vs_pc \in {"wait2", "wait2_enter", "wait2_blocked"}

NextRequest ==
    IF first_frame THEN "FBIOPUT_VSCREENINFO" ELSE "FBIOPAN_DISPLAY"

\* C15: the first page flip after every power-on, also after a power-off
\* caused by the idle timeout, issues FBIOPUT_VSCREENINFO, and every other
\* page flip issues FBIOPAN_DISPLAY.
C15_FirstFlipAfterPowerOnPutsScreenInfo ==
    (vs_pc = "scan" /\ ~ScanDone(scan_k, Len(vsync_buffer)))
    => NextRequest = IF flipped_since_on THEN "FBIOPAN_DISPLAY"
                     ELSE "FBIOPUT_VSCREENINFO"

\* C16: the back buffer is never the front buffer, both are among slots 0 and
\* 1, and after each successful page flip the new front is the old back and
\* the new back is the other slot.
C16_BackBufferIsNeverFront ==
    /\ [](/\ back_buffer_index \in {0, 1}
          /\ front_buffer_index \in {NoFront, 0, 1}
          /\ back_buffer_index # front_buffer_index)
    /\ [][(ctl_calls' # ctl_calls /\ ctl_op' = "flip")
          => /\ front_buffer_index' = back_buffer_index
             /\ back_buffer_index' = 1 - front_buffer_index']_vars

C16_Witness ==
    /\ ctl_op = "flip"
    /\ front_buffer_index = 0
    /\ back_buffer_index = 1
    /\ fb_mem[0] = "frame"
    /\ fb_mem[1] = "frame"

\* C17: when Controller::start returns, every slot of the scanout framebuffer
\* holds a copy of the blank frame.
C17_StartFillsEverySlotWithBlank ==
    ctl_op = "start" => \A s \in Slots : fb_mem[s] = "blank"

\* C18: while the framebuffer is mapped, generated frames are only in slots 0
\* and 1, and the safe-default slot holds the blank frame.
C18_SafeDefaultSlotStaysBlank ==
    scanout_fb = "mapped"
    => /\ \A s \in Slots : fb_mem[s] = "frame" => s \in {0, 1}
       /\ fb_mem[frame_count - 1] = "blank"

GeneratorIdle ==
    gen_pc \in {"pop_enter", "pop_blocked"} /\ pending_updates = <<>>

\* C20: two identical batch updates pushed back-to-back are merged: every
\* frame generated for one is generated for both, one batch of step_count
\* frames is handed over for them, and once the generator is done the
\* intensity of the region is the buffer of the second update.
C20_SameBatchPushedTwiceIsMerged ==
    \A pair \in pushed_twice :
       LET frames == {i \in 1 .. Len(handed) :
                         handed[i].ids \cap {pair[1], pair[2]} # {}}
       IN /\ \A i \in frames : {pair[1], pair[2]} \subseteq handed[i].ids
          /\ Cardinality(frames) <= step_count
          /\ (GeneratorIdle /\ returned[Len(returned)] = pair[2])
             => \A p \in StepPixels(pair[3]) :
                   current_intensity[p] = pair[2] + 1

\* The update has the mode and the immediate flag of the current update.
SameModeAndFlag(cur, update) ==
    update.mode = cur.mode /\ update.immediate = cur.immediate

\* C21: merge_updates absorbs exactly the longest run of updates at the head
\* of the queue that have the mode and the immediate flag of the current
\* update: the n updates it removes are the first n of the queue, each has
\* the mode and flag of the current update, their ids are appended in order
\* to the ids of the current update, and the update left at the head of the
\* queue, if any, differs in mode or flag.
C21_MergeAbsorbsLongestCompatiblePrefix ==
    [][(gen_pc = "merging" /\ gen_pc' = "merged") =>
          LET len == Len(pending_updates)
              n == len - Len(pending_updates')
          IN /\ n >= 0
             /\ pending_updates' = SubSeq(pending_updates, n + 1, len)
             /\ \A i \in 1 .. n :
                   SameModeAndFlag(cur_update, pending_updates[i])
             /\ n < len => ~SameModeAndFlag(cur_update, pending_updates[n + 1])
             /\ cur_update'.id =
                   cur_update.id \o [i \in 1 .. n |-> pending_updates[i].id[1]]
             /\ cur_update'.mode = cur_update.mode
             /\ cur_update'.immediate = cur_update.immediate]_vars

\* A queue of alternating modes was merged: one update was absorbed, and an
\* update of the mode of the current update is left behind one of another
\* mode.
C21_Witness ==
    /\ gen_pc = "merged"
    /\ Len(cur_update.id) = 2
    /\ Len(pending_updates) = 2
    /\ pending_updates[1].mode # cur_update.mode
    /\ SameModeAndFlag(cur_update, pending_updates[2])

\* The update would change the target intensity of a pixel that is in a
\* transition: steps[p] > 0 and next_intensity[p] differs from its buffer.
Conflicts(update, st, target) ==
    \E p \in StepPixels(update.region) :
       st[p] > 0 /\ target[p] # update.buffer

\* C22: in immediate mode, a pending update of the mode of the current update
\* that would change the target intensity of a pixel in a transition is not
\* merged: the call of merge_updates made for the next frame leaves it, and
\* the updates behind it, in the queue.
C22_ConflictingUpdateIsNotMerged ==
    [][(/\ gen_pc = "imm"
        /\ gen_pc' = "send"
        /\ pending_updates # <<>>
        /\ SameModeAndFlag(cur_update, Head(pending_updates))
        /\ Conflicts(Head(pending_updates), steps, next_intensity))
       => pending_updates' = pending_updates]_vars

\* Every accepted update was taken from the queue by the generator thread,
\* which is done with it.
FullyProcessed ==
    /\ pending_updates = <<>>
    /\ gen_pc \in {"pop", "pop_enter", "pop_blocked", "exited"}

\* C23: once every accepted update is fully processed, current_intensity
\* holds at every pixel the last value written to it, and the initial value
\* where no update wrote. (The clients' updates cover one pixel each: any two
\* of them cover the same pixel or do not overlap.)
C23_IntensityIsPixelwiseLastWrite ==
    FullyProcessed => current_intensity = written

\* Two accepted updates of different pixels are fully processed.
C23_Witness ==
    /\ FullyProcessed
    /\ Len(returned) = 2
    /\ \E p, q \in Panel : p # q /\ written[p] = 1 /\ written[q] = 2
    /\ current_intensity = written

\* C24: processing the same update from the same current_intensity in batch
\* mode and in immediate mode yields the same final current_intensity: in
\* both modes it is the starting intensity with the buffer of the update
\* written over its region, whatever the immediate flag.
C24_BatchAndImmediateEndWithSameIntensity ==
    (gen_pc = "done" /\ frame_call.op = "generate")
    => current_intensity = LastWrite(frame_call.update.region,
                                     frame_call.update.buffer,
                                     frame_call.start)

\* An immediate update that changes the panel was processed to its end.
C24_Witness ==
    /\ gen_pc = "done"
    /\ frame_call.op = "generate"
    /\ frame_call.update.immediate
    /\ frames_made = step_count
    /\ current_intensity # frame_call.start

\* The phases a frame holds for a group of a row of the panel.
RECURSIVE UnpackPhases(_, _)
UnpackPhases(byte, n) ==
    IF n = 0 THEN <<>>
    ELSE Append(UnpackPhases(byte \div 4, n - 1), byte % 4)

GroupPhases(frame, row, group) ==
    LET o == (margin_top + row) * buf_stride + (margin_left + group) * buf_depth
        half == buf_actual_depth \div 2
    IN UnpackPhases(frame[o + 1], half) \o UnpackPhases(frame[o], half)

\* The update being generated covers the single pixel at the left of a row.
SinglePixelAtLeft ==
    /\ frame_call.op = "generate"
    /\ frame_call.update.region.left = 0
    /\ frame_call.update.region.width = 1
    /\ frame_call.update.region.height = 1

\* C25: an update of a single pixel with left = 0 and width = 1 produces
\* frames in which the region is widened to one full group of
\* buf_actual_depth pixels: the updated pixel carries the phase of its
\* waveform and the padding pixels are Noop.
C25_SinglePixelIsPaddedToFullGroup ==
    (SinglePixelAtLeft /\ sent_frames # <<>>)
    => LET update == frame_call.update
           p == <<0, update.region.top>>
       IN \A i \in 1 .. Len(sent_frames) :
             LET k == IF update.immediate THEN steps[p] - 1 ELSE i - 1
             IN GroupPhases(sent_frames[i], update.region.top, 0) =
                   [j \in 1 .. buf_actual_depth |->
                       IF j = 1
                       THEN Waveform(k, frame_call.start[p], update.buffer)
                       ELSE Noop]

\* The bytes of a frame that hold the phases of a region: the first two bytes
\* of the pixels of its rows and groups.
RegionBytes(region) ==
    {o \in 0 .. buf_frame - 1 :
        LET row == o \div buf_stride
            col == (o % buf_stride) \div buf_depth
        IN /\ o % buf_depth < 2
           /\ margin_top + region.top <= row
           /\ row < margin_top + region.top + region.height
           /\ margin_left + region.left \div buf_actual_depth <= col
           /\ col < margin_left
                    + (region.left + region.width) \div buf_actual_depth}

\* C26: every frame handed over for scan-out equals the null frame in all
\* bytes outside of the aligned active region and in the third and fourth
\* byte of every pixel.
C26_FramesAreBlankOutsideActiveRegion ==
    frame_call.op = "generate"
    => \A i \in 1 .. Len(sent_frames) :
          \A o \in (0 .. buf_frame - 1)
                   \ RegionBytes(AlignRegion(frame_call.region)) :
             sent_frames[i][o] = null_frame[o]

\* A frame that carries phases was generated for a region that had to be
\* aligned.
C26_Witness ==
    /\ frame_call.op = "generate"
    /\ frame_call.region.left % buf_actual_depth # 0
    /\ sent_frames # <<>>
    /\ \E o \in 0 .. buf_frame - 1 : sent_frames[1][o] # null_frame[o]

IsEmpty(region) == region.width = 0 /\ region.height = 0

\* C28 (as stated): Region::extend is commutative: for any two regions a and
\* b, including empty ones, a extended by b equals b extended by a.
C28_ExtendIsCommutative ==
    extend_call.op = "extend" => extend_call.ab = extend_call.ba

\* C28 (amended): a extended by b equals b extended by a for any two regions
\* that are not both empty; when both are empty, each is left as it is.
C28_ExtendIsCommutativeUnlessBothEmpty ==
    extend_call.op = "extend"
    => IF IsEmpty(extend_call.a) /\ IsEmpty(extend_call.b)
       THEN extend_call.ab = extend_call.a /\ extend_call.ba = extend_call.b
       ELSE extend_call.ab = extend_call.ba

\* An empty region and a region that is not empty were extended by one
\* another, and two regions that are not empty and differ.
C28_Witness ==
    /\ extend_call.op = "extend"
    /\ ~IsEmpty(extend_call.a)
    /\ IsEmpty(extend_call.b)
    /\ extend_call.b.top > extend_call.a.top
    /\ extend_call.ab = extend_call.a
    /\ extend_call.ba = extend_call.a

\* The buffer masked to the bits of an intensity.
Masked(buffer) == [k \in 1 .. Len(buffer) |-> buffer[k] % intensity_values]

\* C29 (as stated): applying the client-to-panel transform twice to a region
\* and its row-major buffer returns the original region and the original
\* buffer, masked.
C29_TransformTwiceIsIdentity ==
    transform_call.op = "transform"
    => /\ transform_call.region2 = transform_call.region
       /\ transform_call.buffer2 = Masked(transform_call.buffer)

\* C29 (amended): applying the transform twice returns the original buffer,
\* masked, and a region of the original width and height whose top is moved
\* by epd_height - epd_width and whose left is moved by epd_width -
\* epd_height: the original region when the panel is square.
C29_TransformTwiceMovesRegion ==
    transform_call.op = "transform"
    => LET region == transform_call.region
       IN /\ transform_call.region2 =
                Rect(U(region.top + epd_height - epd_width),
                     U(region.left + epd_width - epd_height),
                     region.width, region.height)
          /\ transform_call.buffer2 = Masked(transform_call.buffer)

\* A buffer of several intensities, one of them above the mask, was
\* transformed twice.
C29_Witness ==
    /\ transform_call.op = "transform"
    /\ transform_call.region.width > 1
    /\ transform_call.region.height > 1
    /\ transform_call.buffer[1] = intensity_values + 2
    /\ transform_call.buffer[2] = 0
    /\ transform_call.buffer1 # Masked(transform_call.buffer)
    /\ transform_call.buffer2 = Masked(transform_call.buffer)

\* C30: while stop() is not called and the page flips succeed, every update
\* accepted by push_update on a started display is eventually finalized by the
\* vsync thread: its id leaves the in-flight set, so that a client waiting in
\* wait_for(id) or in wait_for_all eventually returns.
C30_AcceptedUpdatesAreFinalized ==
    /\ \A id \in 0 .. MaxPush - 1 :
          (started /\ id \in processing_updates)
             ~> (id \notin processing_updates)
    /\ \A p \in Waiters :
          (started /\ prod_pc[p] \in {"wait_for", "wait_for_all"})
             ~> (prod_pc[p] \in {"wait_for_done", "wait_for_all_done"})

\* The hand-offs made for the update whose first id is u, and those of them
\* that carry finalize = true.
HandoffsOf(u) == {i \in 1 .. Len(handoffs) : handoffs[i].u = u}
Finalizing(u) == {i \in HandoffsOf(u) : handoffs[i].finalize}

\* The ids of the updates that were merged into another update.
MergedIds ==
    Range(Tail(cur_update.id))
       \cup {id \in Range(returned) :
                \E i \in 1 .. Len(handed) :
                   id \in handed[i].ids /\ id # handed[i].u}

\* The update whose first id is u was dequeued by the generator, and the
\* generator has returned from generate_batch or generate_immediate for it.
GeneratorDoneWith(u) ==
    /\ u \in Range(returned)
    /\ u \notin QueuedIds(pending_updates)
    /\ u \notin MergedIds
    /\ \/ cur_update.id[1] # u
       \/ gen_pc \in {"pop", "pop_enter", "pop_blocked", "exited", "off"}

PhaseOf(frame, p) ==
    GroupPhases(frame, p[2], p[1] \div buf_actual_depth)
       [(p[1] % buf_actual_depth) + 1]

\* C32: in each frame of generate_immediate, a pixel of the region whose
\* current intensity differs from its target is emitted the phase of its
\* waveform at its step and the step advances; when the step count reaches
\* step_count it is reset to zero and the current intensity of the pixel takes
\* the target; a pixel that has its target intensity is emitted Noop.
C32_ImmediatePixelsFollowTheirWaveform ==
    [][(gen_pc = "imm" /\ frames_made' = frames_made + 1)
       => \A p \in StepPixels(frame_call'.region) :
             LET prev == current_intensity[p]
                 next == next_intensity'[p]
                 phase == PhaseOf(sent_frames'[1], p)
             IN IF prev # next
                THEN /\ phase = Waveform(steps[p], prev, next)
                     /\ IF steps[p] + 1 = step_count
                        THEN /\ steps'[p] = 0
                             /\ current_intensity'[p] = next
                        ELSE steps'[p] = steps[p] + 1
                ELSE phase = Noop]_vars

\* The generator thread is inside generate_immediate.
InImmediate ==
    /\ started
    /\ cur_update.immediate
    /\ gen_pc \in {"imm", "send", "send_enter", "send_blocked", "send_w",
                   "send_r", "send_n"}

\* C33: generate_immediate terminates: the clients push a bounded number of
\* updates, so the loop reaches a frame in which no pixel advances and
\* returns, and every update queued behind it is eventually dequeued.
C33_ImmediateGenerationTerminates ==
    /\ InImmediate ~> ~InImmediate
    /\ \A id \in 0 .. MaxPush - 1 :
          (started /\ id \in QueuedIds(pending_updates))
             ~> (id \notin QueuedIds(pending_updates))

\* C34: the generator swaps generate_buffer with vsync_buffer and assigns
\* vsync_update in send_frames only while the vsync thread is outside of its
\* scan-out loop, also while stop() is in progress.
C34_NoSwapDuringScanOut ==
    [][(handoffs' # handoffs) => vs_pc # "scan"]_vars

\* C35: the rendezvous cannot deadlock: in no reachable state are
\* vsync_can_read and vsync_can_write both false while the generator waits in
\* send_frames for vsync_can_write and the vsync thread waits for
\* vsync_can_read.
C35_RendezvousNeverDeadlocks ==
    ~(/\ ~vsync_can_read
      /\ ~vsync_can_write
      /\ gen_pc \in {"send_enter", "send_blocked"}
      /\ vs_pc \in {"wait1_enter", "wait1_blocked",
                    "wait2_enter", "wait2_blocked"})

\* The update with id b was merged into the update whose first id is a.
MergedInto(b, a) ==
    /\ a # b
    /\ \/ \E i \in 1 .. Len(handed) : handed[i].u = a /\ b \in handed[i].ids
       \/ cur_update.id # <<>> /\ cur_update.id[1] = a
                               /\ b \in Range(cur_update.id)

\* The last frame of the update whose first id is a was scanned out.
FinalFrameFlipped(a) ==
    \E i \in 1 .. Len(flipped) : flipped[i].u = a /\ flipped[i].last

\* C36: when update B is merged into update A, the id of B stays in the
\* in-flight set until the last frame of A was scanned out, and leaves it in
\* the completion step that removes the id of A.
C36_MergedIdCompletesWithItsUpdate ==
    [][\A a, b \in 0 .. MaxPush - 1 :
          (MergedInto(b, a) /\ b \in processing_updates
                            /\ b \notin processing_updates')
          => /\ a \in processing_updates
             /\ a \notin processing_updates'
             /\ FinalFrameFlipped(a)]_vars

\* C37: every update that push_update enqueued has a region that lies
\* entirely inside the panel, the sums being those of the integers and not
\* of the coordinate type.
C37_EnqueuedRegionsLieInsidePanel ==
    \A i \in 1 .. Len(pending_updates) :
       LET region == pending_updates[i].region
       IN /\ region.left + region.width <= epd_width
          /\ region.top + region.height <= epd_height

\* The data bytes of a block that is read outside of the repeat mode: the
\* block starts with the toggle byte and holds no other.
PlainData(block) == SubSeq(block, 2, Len(block) - 2)
IsPlain(block) ==
    /\ Len(block) >= 3
    /\ block[1] = repeat_toggle
    /\ \A k \in 2 .. Len(block) - 2 : block[k] # repeat_toggle

\* A block read in repeat mode that holds one data byte and its count.
IsRepeated(block) ==
    /\ Len(block) = 4
    /\ block[1] \notin {repeat_toggle, block_end}

\* C38 (as stated): when a waveform block is decoded, each data byte yields
\* four phases of which the rightmost (least significant) bit pair is the
\* first phase written into the phase matrix: in the first matrix of a block
\* read outside of the repeat mode, the first cell of column k holds the two
\* lowest bits of the k-th data byte.
C38_RightmostPairIsFirstPhase ==
    (wbf_call.op = "parse_waveform" /\ IsPlain(wbf_call.block)
        /\ wbf_call.result # <<>>)
    => \A k \in 1 .. intensity_values :
          wbf_call.result[1][0][k - 1] = PlainData(wbf_call.block)[k] % 4

\* C38 (amended): each data byte yields four phases of which the leftmost
\* (most significant) bit pair is the first phase written into the phase
\* matrix and the rightmost the last: the four cells of column k of the
\* first matrix hold the bit pairs of the k-th data byte from the highest to
\* the lowest, and a repeated data byte fills every column of every matrix
\* that way.
C38_LeftmostPairIsFirstPhase ==
    wbf_call.op = "parse_waveform"
    => LET block == wbf_call.block
           Pairs(byte, j) == (byte \div (4 ^ (3 - j))) % 4
       IN /\ (IsPlain(block) /\ wbf_call.result # <<>>)
             => \A k \in 1 .. intensity_values, j \in 0 .. 3 :
                   wbf_call.result[1][j][k - 1] = Pairs(PlainData(block)[k], j)
          /\ IsRepeated(block)
             => /\ Len(wbf_call.result) =
                       (block[2] + 1) \div intensity_values
                /\ \A m \in 1 .. Len(wbf_call.result) :
                      \A k \in 1 .. intensity_values, j \in 0 .. 3 :
                         wbf_call.result[m][j][k - 1] = Pairs(block[1], j)

\* A block read outside of the repeat mode filled a matrix, and the bit
\* pairs of its first data byte differ.
C38_Witness ==
    /\ wbf_call.op = "parse_waveform"
    /\ IsPlain(wbf_call.block)
    /\ wbf_call.result # <<>>
    /\ wbf_call.block[2] = 27
    /\ wbf_call.result[1][0][0] = 0
    /\ wbf_call.result[1][3][0] = 3

\* C39: after a successful from_wbf, for every mode in [0, mode_count) and
\* every temperature range r in [0, len(temperatures) - 1),
\* lookup[mode][r] is a valid index into waveforms.
C39_LookupIndexesAreValid ==
    (wbf_call.op = "from_wbf" /\ wbf_call.ok)
    => \A mode \in 0 .. wbf_call.mode_count - 1,
          r \in 0 .. wbf_call.temperatures - 2 :
          /\ mode \in DOMAIN wbf_call.lookup
          /\ r \in DOMAIN wbf_call.lookup[mode]
          /\ wbf_call.lookup[mode][r] \in 0 .. Len(wbf_call.waveforms) - 1

\* C40: vsync_can_read and vsync_can_write are never both true at the same
\* time: at most one of the generator (write side) and the vsync thread
\* (read side) holds the right to access the rendezvous slot.
C40_FlagsNeverBothTrue == ~(vsync_can_read /\ vsync_can_write)

=============================================================================
